---- MODULE Spec2Model ----
(***************************************************************************)
(* A model of the Qdrant long-term memory extension (src/index.js, the     *)
(* v3.1.0 variant that starts at line 1734): the message buffer and its    *)
(* flush timers, chunk construction, the per-participant storage writes,   *)
(* the recency cutoff of retrieval and the chunking of a stored            *)
(* transcript.                                                             *)
(*                                                                         *)
(* Conventions.  A string of the program is a sequence of one-character    *)
(* strings (so that .length is Len and the sanitiser can be computed); a   *)
(* message text is represented by its length alone.  A JavaScript `null`   *)
(* is the value Null.  Every `await` of a network call ends an action: the *)
(* code up to the await is one atomic step, and so is the code that runs   *)
(* when the call's answer arrives (including the continuations of the      *)
(* callers that were awaiting it).                                         *)
(***************************************************************************)
EXTENDS Integers, Sequences, FiniteSets, TLC

\* ------------------------------------------------------------------ bounds
MaxTurns == 2        \* messages the host appends in one behaviour
MaxFlushes == 1      \* calls of processMessageBuffer that start a flush
MaxSwitches == 1     \* changes of the active chat / of the settings
MaxParticipants == 2 \* participants of a direct call of saveChunkToQdrant
MaxChat == 3         \* length of the live chat a search starts from
MaxPasses == 2       \* passes of the generation interceptor
MaxRuns == 2         \* runs of indexCharacterChats

\* JavaScript null (an object-valued result that is absent)
Null == [null |-> TRUE]

\* ------------------------------------------------- values of send_date
\* a JavaScript value that can stand in send_date or in a stored timestamp
Num(n) == [type |-> "number", v |-> n]
Str(s) == [type |-> "string", v |-> s]
DateObject(t) == [type |-> "date", v |-> t]
Undefined == [type |-> "undefined"]

\* NaN and the null result of normalizeSendDate; the times of the model are
\* natural numbers
NaN == -1
NullTime == -2

\* Number(string) on the strings of the model
StringToNumber(str) ==
  CASE str = "" -> 0
    [] str = "3" -> 3
    [] OTHER -> NaN

\* Date.parse(string) on the strings of the model, in ticks
DateParse(str) ==
  CASE str = "2024-01-04" -> 4
    [] str = "3" -> 9
    [] OTHER -> NaN

normalizeSendDate(sendDate) ==
  CASE sendDate.type = "date" -> sendDate.v
    [] sendDate.type = "number" -> sendDate.v
    [] sendDate.type = "string" ->
         LET numeric == StringToNumber(sendDate.v)
             parsed == DateParse(sendDate.v)
         IN IF numeric # NaN THEN numeric
            ELSE IF parsed # NaN THEN parsed
            ELSE NullTime
    [] OTHER -> NullTime

\* ------------------------------------------------------- strings and names
Alice == <<"A", "l">>
Bob == <<"B", "o", "b">>
You == <<"Y", "o", "u">>
SystemName == <<"S", "y", "s", "t", "e", "m">>
Cy == <<"C", "y">>
NoName == <<>>

Names == {Alice, Bob}

\* String.prototype.toLowerCase on the characters the model uses
ToLowerCase(c) ==
  CASE c = "A" -> "a"
    [] c = "B" -> "b"
    [] c = "C" -> "c"
    [] c = "S" -> "s"
    [] c = "Y" -> "y"
    [] OTHER -> c

\* the character class [a-z0-9_-] of the sanitiser
SafeChars == {"a", "b", "c", "e", "l", "m", "o", "s", "t", "u", "y", "0", "1", "_", "-"}

RECURSIVE CollapseUnderscores(_)
\* .replace(/_+/g, "_")
CollapseUnderscores(s) ==
  IF Len(s) <= 1 THEN s
  ELSE IF s[1] = "_" /\ s[2] = "_" THEN CollapseUnderscores(Tail(s))
  ELSE <<s[1]>> \o CollapseUnderscores(Tail(s))

\* variant: only the underscore in front is removed
StripUnderscores_LeadingOnly(s) ==
  IF Len(s) > 0 /\ s[1] = "_" THEN Tail(s) ELSE s

\* .replace(/^_|_$/g, "")
StripUnderscores(s) ==
  LET a == IF Len(s) > 0 /\ s[1] = "_" THEN Tail(s) ELSE s
  IN IF Len(a) > 0 /\ a[Len(a)] = "_" THEN SubSeq(a, 1, Len(a) - 1) ELSE a

Sanitize(characterName) ==
  LET lowered == [i \in 1..Len(characterName) |-> ToLowerCase(characterName[i])]
      replaced == [i \in 1..Len(lowered) |->
                     IF lowered[i] \in SafeChars THEN lowered[i] ELSE "_"]
  IN StripUnderscores(CollapseUnderscores(replaced))

\* ---------------------------------------------------------------- settings
defaultSettings ==
  [ enabled |-> TRUE,
    provider |-> "openai",
    apiKey |-> "",
    collectionName |-> <<"m", "e", "m">>,
    embeddingModel |-> "text-embedding-3-large",
    memoryLimit |-> 5,
    memoryPosition |-> 2,
    usePerCharacterCollections |-> TRUE,
    autoSaveMemories |-> TRUE,
    saveUserMessages |-> TRUE,
    saveCharacterMessages |-> TRUE,
    minMessageLength |-> 5,
    retainRecentMessages |-> 5,
    chunkMinSize |-> 1200,
    chunkMaxSize |-> 1500,
    chunkTimeout |-> 30000 ]

ShortTimerDelay == 5000

\* loadSettings: the defaults merged with what the user saved, here an API key
SavedSettings == [defaultSettings EXCEPT !.apiKey = "key"]

\* the settings the user can bring about through the settings panel
SettingsChoices ==
  { SavedSettings,
    defaultSettings,
    [SavedSettings EXCEPT !.autoSaveMemories = FALSE],
    [SavedSettings EXCEPT !.saveUserMessages = FALSE],
    [SavedSettings EXCEPT !.saveCharacterMessages = FALSE] }

\* the vector size createCollection asks for
getEmbeddingDimensions(s) ==
  CASE s.embeddingModel = "text-embedding-3-large" -> 3072
    [] s.embeddingModel = "text-embedding-3-small" -> 1536
    [] s.embeddingModel = "text-embedding-ada-002" -> 1536
    [] OTHER -> 1536

\* the length of the vectors the embedding service returns for a model
VectorSize(model) ==
  CASE model = "text-embedding-3-large" -> 3072
    [] model = "text-embedding-3-small" -> 1536
    [] model = "text-embedding-ada-002" -> 1536
    [] OTHER -> 384

\* storage: a namespace is created with the size createCollection sends
Created(sizes, collectionName, s) ==
  (collectionName :> getEmbeddingDimensions(s)) @@ sizes

\* storage: namespaces that were created under the settings s
CreatedWith(names, s) == [c \in names |-> getEmbeddingDimensions(s)]

providerRequiresApiKey(provider) ==
  provider \in {"openai", "openrouter", "huggingface"}

getEffectiveEmbeddingApiKey(currentSettings) == currentSettings.apiKey

getCollectionName(s, characterName) ==
  IF ~s.usePerCharacterCollections
    THEN s.collectionName
    ELSE s.collectionName \o <<"_">> \o Sanitize(characterName)

\* lengths of the message texts the host produces
TextLengths == {3, 594, 1494}

\* ------------------------------------------------------------------- state
VARIABLES
  settings,       \* the settings record (line 1764)
  context,        \* what getContext() returns: name2, characters, chat
  now,            \* Date.now(), in ticks of the host's clock
  messageBuffer,  \* line 1768
  chunkTimer,     \* line 1770: the handle of the timer armed last, 0 for null
  timers,         \* the timeouts that are armed: records [id, delay]
  flushes,        \* one record per call of processMessageBuffer that found turns
  collections,    \* storage: the namespaces that exist
  dimensions,     \* storage: the vector size each namespace was created with
  points,         \* storage: the points written, [collection, id, payload]
  offered,        \* history: the messageIds bufferMessage accepted
  switches,       \* history: number of chat / settings changes so far
  last,           \* history: the handler that ran last, and its inputs
  search,         \* the call of searchMemories: its position and its locals
  indexing        \* the run of indexCharacterChats: its position and its locals

vars == <<settings, context, now, messageBuffer, chunkTimer, timers, flushes,
          collections, dimensions, points, offered, switches, last, search,
          indexing>>

\* the variables only retrieval and the bulk indexer change
retrievalVars == <<search, indexing>>

\* ------------------------------------------------------------ chunk builder
RECURSIVE SeqToSetOrdered(_, _)
\* Array.from(new Set(...)): the distinct elements in order of first insertion
SeqToSetOrdered(s, seen) ==
  IF s = <<>> THEN <<>>
  ELSE IF Head(s) \in seen THEN SeqToSetOrdered(Tail(s), seen)
  ELSE <<Head(s)>> \o SeqToSetOrdered(Tail(s), seen \cup {Head(s)})

\* variant: every line carries the character's name
SpeakerLabel_AlwaysCharacter(msg) == msg.characterName

SpeakerLabel(msg) == IF msg.isUser THEN You ELSE msg.characterName

\* the line `${speaker}: ${msg.text}\n` of a chunk, as [speaker, text length]
ChunkLine(msg) == [speaker |-> SpeakerLabel(msg), text |-> msg.text]

createChunkFromBuffer(buf, currentTimestamp) ==
  IF Len(buf) = 0 THEN Null
  ELSE [ lines |-> [i \in 1..Len(buf) |-> ChunkLine(buf[i])],
         dated |-> TRUE,
         speakers |-> SeqToSetOrdered([i \in 1..Len(buf) |-> SpeakerLabel(buf[i])], {}),
         messageIds |-> [i \in 1..Len(buf) |-> buf[i].messageId],
         messageCount |-> Len(buf),
         timestamp |-> Num(currentTimestamp) ]

\* chat.slice(-n)
SliceLast(s, n) == IF Len(s) <= n THEN s ELSE SubSeq(s, Len(s) - n + 1, Len(s))

RecentWindow == 50

RECURSIVE SpeakerNames(_)
SpeakerNames(chat) ==
  IF chat = <<>> THEN <<>>
  ELSE LET msg == Head(chat)
       IN (IF ~msg.is_user /\ msg.name # NoName /\ msg.name # SystemName
             THEN <<msg.name>> ELSE <<>>) \o SpeakerNames(Tail(chat))

getChatParticipants(ctx) ==
  IF Cardinality(ctx.characters) > 1
    THEN SeqToSetOrdered(
           (IF ctx.name2 # NoName THEN <<ctx.name2>> ELSE <<>>)
             \o SpeakerNames(SliceLast(ctx.chat, RecentWindow)), {})
    ELSE IF ctx.name2 # NoName THEN <<ctx.name2>> ELSE <<>>

\* ------------------------------------------------- buffering state machine
\* bufferMessage without the checks of the save-type toggles
Rejects_IgnoringType(s, text, isUser) ==
  \/ ~s.autoSaveMemories
  \/ providerRequiresApiKey(s.provider) /\ getEffectiveEmbeddingApiKey(s) = ""
  \/ text < s.minMessageLength

\* the early returns of bufferMessage
Rejects(s, text, isUser) ==
  \/ ~s.autoSaveMemories
  \/ providerRequiresApiKey(s.provider) /\ getEffectiveEmbeddingApiKey(s) = ""
  \/ text < s.minMessageLength
  \/ isUser /\ ~s.saveUserMessages
  \/ ~isUser /\ ~s.saveCharacterMessages

RECURSIVE BufferSize(_)
\* bufferSize += msg.text.length + msg.characterName.length + 4
BufferSize(buf) ==
  IF buf = <<>> THEN 0
  ELSE Head(buf).text + Len(Head(buf).characterName) + 4 + BufferSize(Tail(buf))

\* the size test written with > where the code has >=
FlushDecision_StrictMax(bufferSize, s) ==
  IF bufferSize > s.chunkMaxSize THEN "now"
  ELSE IF bufferSize >= s.chunkMinSize THEN "short"
  ELSE "long"

\* the three branches that follow the size computation
FlushDecision(bufferSize, s) ==
  IF bufferSize >= s.chunkMaxSize THEN "now"
  ELSE IF bufferSize >= s.chunkMinSize THEN "short"
  ELSE "long"

\* the two delays taken the other way round
TimerDelay_Swapped(decision, s) ==
  IF decision = "short" THEN s.chunkTimeout ELSE ShortTimerDelay

TimerDelay(decision, s) ==
  IF decision = "short" THEN ShortTimerDelay ELSE s.chunkTimeout

\* variant: the timer armed before is left armed
ClearTimeout_Never(armed, handle) == armed

\* if (chunkTimer) clearTimeout(chunkTimer)
ClearTimeout(armed, handle) == {t \in armed : t.id # handle}

\* a call of saveChunkToQdrant that has sent its embedding request; the flush
\* of processMessageBuffer is such a call, and its caller waits for it
NewFlush(chunk, participants, caller) ==
  [ caller |-> caller,
    chunk |-> chunk,
    participants |-> participants,
    phase |-> "embedding",
    embedding |-> "pending",
    embedRequests |-> 1,
    model |-> settings.embeddingModel,
    pointId |-> 0,
    part |-> [i \in 1..Len(participants) |-> "idle"],
    coll |-> [i \in 1..Len(participants) |-> <<>>],
    upserts |-> <<>>,
    result |-> "pending" ]

\* a call of processMessageBuffer that found no participant
NoParticipantFlush(chunk) ==
  [ caller |-> "processMessageBuffer",
    chunk |-> chunk,
    participants |-> <<>>,
    phase |-> "returned",
    embedding |-> "none",
    embedRequests |-> 0,
    pointId |-> 0,
    part |-> <<>>,
    coll |-> <<>>,
    upserts |-> <<>>,
    result |-> "none" ]

\* a flush that keeps the turns of a chunk it could not save
BufferAfterSave_KeepOnFailure(buf, saved) == IF saved THEN <<>> ELSE buf

\* messageBuffer = [] once saveChunkToQdrant has returned
BufferAfterSave(buf, saved) == <<>>

\* processMessageBuffer up to its await: the new values of messageBuffer
\* and flushes
processMessageBuffer(buf, ctx, fl, t) ==
  IF Len(buf) = 0 THEN [messageBuffer |-> buf, flushes |-> fl]
  ELSE LET chunk == createChunkFromBuffer(buf, t)
           participants == getChatParticipants(ctx)
       IN IF Len(participants) = 0
            THEN [messageBuffer |-> <<>>,
                  flushes |-> Append(fl, NoParticipantFlush(chunk))]
            ELSE [messageBuffer |-> buf,
                  flushes |-> Append(fl, NewFlush(chunk, participants, "processMessageBuffer"))]

bufferMessage(text, characterName, isUser, messageId, ctx, t) ==
  IF Rejects(settings, text, isUser)
    THEN UNCHANGED <<messageBuffer, chunkTimer, timers, flushes, offered>>
    ELSE LET buf == Append(messageBuffer,
                      [text |-> text, characterName |-> characterName,
                       isUser |-> isUser, messageId |-> messageId])
             decision == FlushDecision(BufferSize(buf), settings)
             cleared == ClearTimeout(timers, chunkTimer)
         IN /\ offered' = offered \cup {messageId}
            /\ IF decision = "now"
                 THEN LET r == processMessageBuffer(buf, ctx, flushes, t)
                      IN /\ messageBuffer' = r.messageBuffer
                         /\ flushes' = r.flushes
                         /\ timers' = cleared
                         /\ chunkTimer' = chunkTimer
                 ELSE /\ messageBuffer' = buf
                      /\ flushes' = flushes
                      /\ timers' = cleared \cup
                           {[id |-> chunkTimer + 1, delay |-> TimerDelay(decision, settings)]}
                      /\ chunkTimer' = chunkTimer + 1

\* the identifier onMessageSent gives the last message of the chat
LiveMessageId(characterName, chat) ==
  <<characterName, chat[Len(chat)].send_date, Len(chat)>>

\* The host appends a message to the live chat and notifies the extension
\* (MESSAGE_RECEIVED / USER_MESSAGE_RENDERED): onMessageSent runs.
HostMessage ==
  \E text \in TextLengths, isUser \in BOOLEAN, speaker \in context.characters :
    LET msg == [name |-> IF isUser THEN You ELSE speaker, is_user |-> isUser,
                is_system |-> FALSE, mes |-> text, send_date |-> Num(now + 1),
                memory |-> FALSE]
        ctx == [context EXCEPT !.chat = Append(@, msg)]
        characterName == ctx.name2
        messageId == LiveMessageId(characterName, ctx.chat)
        called == settings.autoSaveMemories /\ characterName # NoName /\ text > 0
    IN /\ now < MaxTurns
       /\ isUser => speaker = CHOOSE c \in context.characters : TRUE
       /\ now' = now + 1
       /\ context' = ctx
       /\ IF called
            THEN bufferMessage(text, characterName, isUser, messageId, ctx, now + 1)
            ELSE UNCHANGED <<messageBuffer, chunkTimer, timers, flushes, offered>>
       /\ Len(flushes') <= MaxFlushes
       /\ last' = [op |-> "onMessageSent", called |-> called, text |-> text,
                   isUser |-> isUser, characterName |-> characterName,
                   messageId |-> messageId]
       /\ UNCHANGED retrievalVars
       /\ UNCHANGED <<settings, collections, dimensions, points, switches>>

\* an armed timeout expires: its callback calls processMessageBuffer
TimerFires ==
  \E t \in timers :
    LET r == processMessageBuffer(messageBuffer, context, flushes, now)
    IN /\ timers' = timers \ {t}
       /\ messageBuffer' = r.messageBuffer
       /\ flushes' = r.flushes
       /\ Len(flushes') <= MaxFlushes
       /\ last' = [op |-> "timer", timer |-> t]
       /\ UNCHANGED retrievalVars
       /\ UNCHANGED <<settings, context, now, chunkTimer, collections,
                      dimensions, points, offered, switches>>

\* ------------------------------------------------- saveChunkToQdrant steps
ChunkPayload(chunk) ==
  [ text |-> [lines |-> chunk.lines, dated |-> chunk.dated],
    speakers |-> chunk.speakers,
    messageCount |-> chunk.messageCount,
    timestamp |-> chunk.timestamp,
    messageIds |-> chunk.messageIds,
    isChunk |-> TRUE ]

\* every request tagged with the first participant's name
UpsertRequest_TaggedWithFirst(rec, i) ==
  [ collection |-> rec.coll[i],
    id |-> rec.pointId,
    character |-> rec.participants[1],
    payload |-> ChunkPayload(rec.chunk) ]

\* the body of the PUT .../points request of participant i
UpsertRequest(rec, i) ==
  [ collection |-> rec.coll[i],
    id |-> rec.pointId,
    character |-> rec.participants[i],
    payload |-> ChunkPayload(rec.chunk) ]

\* storage: upsert by (collection, id)
Upsert(stored, req) ==
  {p \in stored : ~(p.collection = req.collection /\ p.id = req.id)} \cup {req}

\* participant i's callback reaches its PUT .../points
IssueUpsert(rec, i) ==
  [rec EXCEPT !.part[i] = "writing", !.upserts = Append(@, UpsertRequest(rec, i))]

\* successCount > 0
SaveResult(part) ==
  IF \E i \in DOMAIN part : part[i] = "saved" THEN "true" ELSE "false"

\* Promise.all over the participants' callbacks, then the return of
\* saveChunkToQdrant (a rejected callback is caught by the outer try)
AwaitAll(rec) ==
  IF rec.phase # "saving" THEN rec
  ELSE IF \E i \in DOMAIN rec.part : rec.part[i] = "threw"
    THEN [rec EXCEPT !.phase = "returned", !.result = "false"]
  ELSE IF \A i \in DOMAIN rec.part : rec.part[i] \in {"saved", "failed", "notready"}
    THEN [rec EXCEPT !.phase = "returned", !.result = SaveResult(rec.part)]
  ELSE rec

\* variant: the end of the run reported without a look at `cancelled`
NextFile_ReportsCompleted(ix) ==
  IF ix.files # <<>> /\ ~ix.cancelled
    THEN [ix EXCEPT !.phase = "loading", !.files = Tail(@), !.chunks = <<>>]
    ELSE [ix EXCEPT !.phase = "completed", !.chunks = <<>>]

\* variant: a file loop without the test of `cancelled`
NextFile_IgnoringCancel(ix) ==
  IF ix.files # <<>>
    THEN [ix EXCEPT !.phase = "loading", !.files = Tail(@), !.chunks = <<>>]
    ELSE [ix EXCEPT !.phase = IF ix.cancelled THEN "cancelled" ELSE "completed",
                    !.chunks = <<>>]

\* the next iteration of the file loop, or the end of the run
NextFile(ix) ==
  IF ix.files # <<>> /\ ~ix.cancelled
    THEN [ix EXCEPT !.phase = "loading", !.files = Tail(@), !.chunks = <<>>]
    ELSE [ix EXCEPT !.phase = IF ix.cancelled THEN "cancelled" ELSE "completed",
                    !.chunks = <<>>]

\* the next iteration of the chunk loop: the head of ix.chunks is probed
NextChunk(ix) ==
  IF ix.chunks # <<>> /\ ~ix.cancelled
    THEN [ix EXCEPT !.phase = "checking"]
    ELSE NextFile(ix)

\* variant: savedChunks counts the calls, not the successes
IndexAfterSave_CountingCalls(ix, success) ==
  NextChunk([ix EXCEPT !.chunks = Tail(@), !.savedChunks = @ + 1])

\* the indexer's loop after saveChunkToQdrant has returned
IndexAfterSave(ix, success) ==
  NextChunk([ix EXCEPT !.chunks = Tail(@),
                       !.savedChunks = IF success THEN @ + 1 ELSE @])

\* the caller of saveChunkToQdrant runs on when it returns: the rest of
\* processMessageBuffer, or the chunk loop of indexCharacterChats
Resume(f, rec) ==
  LET returns == rec.phase = "returned" /\ flushes[f].phase # "returned"
  IN /\ flushes' = [flushes EXCEPT ![f] = rec]
     /\ messageBuffer' =
          IF rec.caller = "processMessageBuffer" /\ returns
            THEN BufferAfterSave(messageBuffer, rec.result = "true")
            ELSE messageBuffer
     /\ indexing' =
          IF rec.caller = "indexCharacterChats" /\ returns
            THEN IndexAfterSave(indexing, rec.result = "true")
            ELSE indexing

\* the answer to generateEmbedding(chunk.text): a vector, null (an error
\* status or an unknown response shape) or a rejection (the fetch, or the
\* read of extension_settings, throws)
EmbeddingAnswer ==
  \E f \in DOMAIN flushes, outcome \in {"vector", "null", "rejected"} :
    /\ flushes[f].phase = "embedding"
    /\ LET rec == flushes[f]
           n == Len(rec.participants)
       IN IF outcome = "vector"
            THEN Resume(f, [rec EXCEPT
                   !.phase = "saving",
                   !.embedding = outcome,
                   !.pointId = f,
                   !.part = [i \in 1..n |-> "probing"],
                   !.coll = [i \in 1..n |-> getCollectionName(settings, rec.participants[i])]])
            ELSE Resume(f, [rec EXCEPT !.phase = "returned", !.embedding = outcome,
                                       !.result = "false"])
    /\ last' = [op |-> "embedding", flush |-> f, outcome |-> outcome]
    /\ UNCHANGED search
    /\ UNCHANGED <<settings, context, now, chunkTimer, timers, collections,
                   dimensions, points, offered, switches>>

\* the answer to collectionExists: response.ok, or false when the fetch fails
CollectionProbeAnswer ==
  \E f \in DOMAIN flushes :
    \E i \in DOMAIN flushes[f].part, reachable \in BOOLEAN :
      LET rec == flushes[f]
          exists == reachable /\ rec.coll[i] \in collections
      IN /\ rec.part[i] = "probing"
         /\ Resume(f, IF exists THEN IssueUpsert(rec, i)
                      ELSE [rec EXCEPT !.part[i] = "creating"])
         /\ last' = [op |-> "probe", flush |-> f, participant |-> i, exists |-> exists]
         /\ UNCHANGED search
         /\ UNCHANGED <<settings, context, now, chunkTimer, timers,
                        collections, dimensions, points, offered, switches>>

\* the answer to createCollection: the storage creates a namespace that does
\* not exist, and refuses one that does; the request can also fail
CreateAnswer ==
  \E f \in DOMAIN flushes :
    \E i \in DOMAIN flushes[f].part, reachable \in BOOLEAN :
      LET rec == flushes[f]
          created == reachable /\ rec.coll[i] \notin collections
      IN /\ rec.part[i] = "creating"
         /\ collections' = IF created THEN collections \cup {rec.coll[i]} ELSE collections
         /\ dimensions' = IF created THEN Created(dimensions, rec.coll[i], settings)
                          ELSE dimensions
         /\ Resume(f, IF created THEN IssueUpsert(rec, i)
                      ELSE AwaitAll([rec EXCEPT !.part[i] = "notready"]))
         /\ last' = [op |-> "create", flush |-> f, participant |-> i, created |-> created]
         /\ UNCHANGED search
         /\ UNCHANGED <<settings, context, now, chunkTimer, timers, points,
                        offered, switches>>

\* storage: a point is accepted by a namespace that exists when its vector
\* has the size the namespace was created with
Accepts(sizes, collectionName, model) ==
  /\ collectionName \in DOMAIN sizes
  /\ sizes[collectionName] = VectorSize(model)

\* the answer to the PUT .../points: ok, an error status, or a failed fetch
UpsertAnswer ==
  \E f \in DOMAIN flushes :
    \E i \in DOMAIN flushes[f].part, outcome \in {"ok", "error", "rejected"} :
      LET rec == flushes[f]
          state == CASE outcome = "ok" -> "saved"
                     [] outcome = "error" -> "failed"
                     [] OTHER -> "threw"
      IN /\ rec.part[i] = "writing"
         /\ outcome = "ok" => Accepts(dimensions, rec.coll[i], rec.model)
         /\ points' = IF outcome = "ok" THEN Upsert(points, UpsertRequest(rec, i))
                      ELSE points
         /\ Resume(f, AwaitAll([rec EXCEPT !.part[i] = state]))
         /\ last' = [op |-> "upsert", flush |-> f, participant |-> i, outcome |-> outcome]
         /\ UNCHANGED search
         /\ UNCHANGED <<settings, context, now, chunkTimer, timers,
                        collections, dimensions, offered, switches>>

\* ------------------------------------------------------------ environment
\* the user opens the chat of another character, or closes the character
SwitchChat ==
  \E name \in (context.characters \cup {NoName}) \ {context.name2} :
    /\ switches < MaxSwitches
    /\ switches' = switches + 1
    /\ context' = [context EXCEPT !.name2 = name, !.chat = <<>>]
    /\ last' = [op |-> "switchChat"]
    /\ UNCHANGED retrievalVars
    /\ UNCHANGED <<settings, now, messageBuffer, chunkTimer, timers, flushes,
                   collections, dimensions, points, offered>>

\* the user changes a setting in the settings panel
ChangeSettings ==
  \E s \in SettingsChoices \ {settings} :
    /\ switches < MaxSwitches
    /\ switches' = switches + 1
    /\ settings' = s
    /\ last' = [op |-> "changeSettings"]
    /\ UNCHANGED retrievalVars
    /\ UNCHANGED <<context, now, messageBuffer, chunkTimer, timers, flushes,
                   collections, dimensions, points, offered>>

Init ==
  /\ settings = SavedSettings
  /\ context = [name2 |-> Alice, characters |-> {Alice}, chat |-> <<>>]
  /\ now = 0
  /\ messageBuffer = <<>>
  /\ chunkTimer = 0
  /\ timers = {}
  /\ flushes = <<>>
  /\ collections = {}
  /\ dimensions = CreatedWith(collections, settings)
  /\ points = {}
  /\ offered = {}
  /\ switches = 0
  /\ last = [op |-> "init"]
  /\ search = [phase |-> "idle"]
  /\ indexing = [phase |-> "idle"]

Next ==
  \/ HostMessage
  \/ TimerFires
  \/ EmbeddingAnswer
  \/ CollectionProbeAnswer
  \/ CreateAnswer
  \/ UpsertAnswer
  \/ SwitchChat
  \/ ChangeSettings

Spec == Init /\ [][Next]_vars

\* ------------------------------------- saveChunkToQdrant called on its own
\* the shared-namespace configuration
SharedSettings == [SavedSettings EXCEPT !.usePerCharacterCollections = FALSE]

SavePool == {Alice, Bob, Cy}

\* participant lists: distinct names, as getChatParticipants and
\* indexCharacterChats build them
ParticipantLists ==
  {p \in UNION {[1..n -> SavePool] : n \in 0..MaxParticipants} :
     \A i, j \in DOMAIN p : p[i] = p[j] => i = j}

\* a chunk of two turns, built as the live path builds it
SampleChunk ==
  createChunkFromBuffer(
    << [text |-> 594, characterName |-> Alice, isUser |-> TRUE,
        messageId |-> <<Alice, 1, 1>>],
       [text |-> 594, characterName |-> Alice, isUser |-> FALSE,
        messageId |-> <<Alice, 2, 2>>] >>, 2)

\* the first lines of saveChunkToQdrant: false for no chunk or no participant
SaveChunkEntry(chunk, participants) ==
  IF chunk = Null \/ Len(participants) = 0
    THEN [NoParticipantFlush(chunk) EXCEPT !.caller = "direct", !.result = "false"]
    ELSE NewFlush(chunk, participants, "direct")

\* one call of saveChunkToQdrant per behaviour
SaveChunkCall ==
  \E participants \in ParticipantLists :
    /\ flushes = <<>>
    /\ flushes' = Append(flushes, SaveChunkEntry(SampleChunk, participants))
    /\ last' = [op |-> "saveChunkToQdrant", participants |-> participants]
    /\ UNCHANGED retrievalVars
    /\ UNCHANGED <<settings, context, now, messageBuffer, chunkTimer, timers,
                   collections, dimensions, points, offered, switches>>

InitSave ==
  /\ settings \in {SavedSettings, SharedSettings}
  /\ context = [name2 |-> Alice, characters |-> SavePool, chat |-> <<>>]
  /\ now = 2
  /\ messageBuffer = <<>>
  /\ chunkTimer = 0
  /\ timers = {}
  /\ flushes = <<>>
  /\ collections \in SUBSET {getCollectionName(settings, Alice)}
  /\ dimensions = CreatedWith(collections, settings)
  /\ points = {}
  /\ offered = {}
  /\ switches = 0
  /\ last = [op |-> "init"]
  /\ search = [phase |-> "idle"]
  /\ indexing = [phase |-> "idle"]

NextSave ==
  \/ SaveChunkCall
  \/ EmbeddingAnswer
  \/ CollectionProbeAnswer
  \/ CreateAnswer
  \/ UpsertAnswer

SpecSave == InitSave /\ [][NextSave]_vars

\* ----------------------------------------------------------- retrieval
isQdrantMemoryMessage(message) == message.memory

getConversationMessages(chat) ==
  SelectSeq(chat, LAMBDA msg :
    ~isQdrantMemoryMessage(msg) /\ normalizeSendDate(msg.send_date) # NullTime)

\* the chat after the in-place removal of the injected memory entries
removeExistingMemoryEntries(chat) ==
  SelectSeq(chat, LAMBDA msg : ~isQdrantMemoryMessage(msg))

\* the boundary taken one turn too late
RetainIndex_OffByOne(conversationMessages, s) ==
  Len(conversationMessages) - s.retainRecentMessages + 1

\* conversationMessages.length - settings.retainRecentMessages (0-based)
RetainIndex(conversationMessages, s) ==
  Len(conversationMessages) - s.retainRecentMessages

\* timestampThreshold, computed from the chat without memory entries
TimestampThreshold(chat, s) ==
  LET conversationMessages == getConversationMessages(chat)
  IN IF s.retainRecentMessages > 0
        /\ Len(conversationMessages) > s.retainRecentMessages
       THEN LET retainIndex == RetainIndex(conversationMessages, s)
                \* retainMessage?.send_date
                sendDate == IF retainIndex + 1 \in DOMAIN conversationMessages
                              THEN conversationMessages[retainIndex + 1].send_date
                              ELSE Undefined
                normalizedTimestamp == normalizeSendDate(sendDate)
            IN IF normalizedTimestamp # NullTime THEN normalizedTimestamp ELSE 0
       ELSE 0

\* the timestamp condition added for every cutoff
FilterConditions_AlwaysTimestamp(timestampThreshold, s, characterName) ==
  <<[key |-> "timestamp", lt |-> timestampThreshold]>>
  \o (IF ~s.usePerCharacterCollections
        THEN <<[key |-> "character", value |-> characterName]>> ELSE <<>>)

\* filterConditions
FilterConditions(timestampThreshold, s, characterName) ==
  (IF timestampThreshold > 0
     THEN <<[key |-> "timestamp", lt |-> timestampThreshold]>> ELSE <<>>)
  \o (IF ~s.usePerCharacterCollections
        THEN <<[key |-> "character", value |-> characterName]>> ELSE <<>>)

\* searchPayload; the filter is present only if there is a condition
SearchPayload(timestampThreshold, s, characterName) ==
  LET conditions == FilterConditions(timestampThreshold, s, characterName)
  IN IF Len(conditions) > 0
       THEN [limit |-> s.memoryLimit, with_payload |-> TRUE,
             filter |-> [must |-> conditions]]
       ELSE [limit |-> s.memoryLimit, with_payload |-> TRUE]

\* storage: a point satisfies a condition of a `must` filter; a range
\* condition holds of numeric payload values only
Satisfies(point, cond) ==
  IF cond.key = "timestamp"
    THEN /\ point.payload.timestamp.type = "number"
         /\ point.payload.timestamp.v # NaN
         /\ point.payload.timestamp.v < cond.lt
    ELSE point.character = cond.value

\* storage: the points of a namespace a search request can return
Matching(stored, collectionName, payload) ==
  {p \in stored :
     /\ p.collection = collectionName
     /\ "filter" \in DOMAIN payload =>
          \A k \in DOMAIN payload.filter.must : Satisfies(p, payload.filter.must[k])}

\* ------------------------------------------- injection into the live chat
\* a stored payload formatMemories can render: payload.text is a string
Formattable(point) == "text" \in DOMAIN point.payload

\* the length of the line `${speaker}: ${msg.text}\n` of a chunk
LineLength(line) == Len(line.speaker) + 2 + line.text + 1

RECURSIVE SumOver(_, _)
\* the sum of the lengths of the elements of a sequence
SumOver(seq, i) ==
  IF i > Len(seq) THEN 0 ELSE seq[i] + SumOver(seq, i + 1)

\* the length of a chunk's text: the date prefix `[YYYY-MM-DD]\n` and the
\* trimmed lines
ChunkTextLength(text) ==
  (IF text.dated THEN 13 ELSE 0)
  + SumOver([i \in DOMAIN text.lines |-> LineLength(text.lines[i])], 1) - 1

\* the length of speakers.join(", ")
JoinLength(speakers) ==
  SumOver([i \in DOMAIN speakers |-> Len(speakers[i])], 1)
  + 2 * (Len(speakers) - 1)

\* the digits of (memory.score * 100).toFixed(0), for scores of 10% to 99%
ScoreDigits == 2

\* the length of the bullet of a chunk:
\* `• Conversation (${speakers}): "${text}" (score: ${score}%)\n\n`
BulletLength(point) ==
  2 + 14 + JoinLength(point.payload.speakers) + 1 + 3
    + ChunkTextLength(point.payload.text) + 10 + ScoreDigits + 4

RECURSIVE BulletsLength(_)
BulletsLength(memories) ==
  IF memories = {} THEN 0
  ELSE LET memory == CHOOSE m \in memories : TRUE
       IN BulletLength(memory) + BulletsLength(memories \ {memory})

\* the length of formatMemories(memories): "" for no memory, otherwise the
\* header "\n[Past chat memories]\n\n" and the bullets
formatMemories(memories) ==
  IF memories = {} THEN 0 ELSE 23 + BulletsLength(memories)

\* memoryEntry
MemoryEntry(memories, t) ==
  [ name |-> SystemName, is_user |-> FALSE, is_system |-> TRUE,
    mes |-> formatMemories(memories), send_date |-> Num(t), memory |-> TRUE ]

\* chat.splice(index, 0, entry), index counted from 0
Splice(chat, index, entry) ==
  SubSeq(chat, 1, index) \o <<entry>> \o SubSeq(chat, index + 1, Len(chat))

\* the entry put behind the last turn
InsertIndex_AtEnd(chat, s) == Len(chat)

\* the entry put as far from the end as from the start
InsertIndex_FromStart(chat, s) ==
  IF s.memoryPosition < Len(chat) THEN s.memoryPosition ELSE Len(chat)

\* Math.max(0, chat.length - settings.memoryPosition)
InsertIndex(chat, s) ==
  IF Len(chat) - s.memoryPosition > 0 THEN Len(chat) - s.memoryPosition ELSE 0

\* what the rest of the interceptor does once searchMemories has returned:
\* "none" for no memory, "fault" when formatMemories throws (the catch of
\* the interceptor logs it), "injected" otherwise
PassOutcome(memories) ==
  IF memories = {} THEN "none"
  ELSE IF \E m \in memories : ~Formattable(m) THEN "fault"
  ELSE "injected"

\* an interceptor without its try/catch around the formatting: an empty
\* entry is inserted although formatMemories has thrown
InterceptorResumes_InsertsOnFault(chat, memories, s, t) ==
  IF PassOutcome(memories) = "injected"
    THEN Splice(chat, InsertIndex(chat, s), MemoryEntry(memories, t))
  ELSE IF PassOutcome(memories) = "fault"
    THEN Splice(chat, InsertIndex(chat, s), MemoryEntry({}, t))
  ELSE chat

\* the chat after the rest of the interceptor
InterceptorResumes(chat, memories, s, t) ==
  IF PassOutcome(memories) = "injected"
    THEN Splice(chat, InsertIndex(chat, s), MemoryEntry(memories, t))
    ELSE chat

\* who called searchMemories: the interceptor (which of its passes, and how
\* many memory entries the pass removed), or a caller that only takes the
\* result
CallerOf(sr) ==
  IF "caller" \in DOMAIN sr
    THEN [caller |-> sr.caller, pass |-> sr.pass, removed |-> sr.removed]
    ELSE [caller |-> "direct", pass |-> 0, removed |-> 0]

\* searchMemories returns: `returned` holds its result, and its caller runs on
SearchReturns(returned, chat) ==
  LET call == CallerOf(search)
  IN IF call.caller = "interceptor"
       THEN /\ search' = returned @@ call
                           @@ [outcome |-> PassOutcome(returned.result)]
            /\ context' = [context EXCEPT !.chat =
                             InterceptorResumes(chat, returned.result, settings, now)]
       ELSE /\ search' = returned
            /\ context' = [context EXCEPT !.chat = chat]

\* searchMemories up to the probe of ensureCollection
SearchCall ==
  /\ search.phase = "idle"
  /\ context.name2 # NoName
  /\ search' = IF ~settings.enabled
                 THEN [phase |-> "done", result |-> {}]
                 ELSE [phase |-> "probing", characterName |-> context.name2,
                       collectionName |-> getCollectionName(settings, context.name2)]
  /\ last' = [op |-> "searchMemories"]
  /\ UNCHANGED indexing
  /\ UNCHANGED <<settings, context, now, messageBuffer, chunkTimer, timers,
                 flushes, collections, dimensions, points, offered, switches>>

SearchProbeAnswer ==
  \E reachable \in BOOLEAN :
    LET exists == reachable /\ search.collectionName \in collections
    IN /\ search.phase = "probing"
       /\ search' = [search EXCEPT !.phase = IF exists THEN "embedding" ELSE "creating"]
       /\ last' = [op |-> "searchProbe", exists |-> exists]
       /\ UNCHANGED indexing
       /\ UNCHANGED <<settings, context, now, messageBuffer, chunkTimer,
                      timers, flushes, collections, dimensions, points,
                      offered, switches>>

SearchCreateAnswer ==
  \E reachable \in BOOLEAN :
    LET created == reachable /\ search.collectionName \notin collections
    IN /\ search.phase = "creating"
       /\ collections' = IF created THEN collections \cup {search.collectionName}
                         ELSE collections
       /\ dimensions' = IF created
                          THEN Created(dimensions, search.collectionName, settings)
                          ELSE dimensions
       /\ IF created
            THEN /\ search' = [search EXCEPT !.phase = "embedding"]
                 /\ context' = context
            ELSE SearchReturns([phase |-> "done", result |-> {}], context.chat)
       /\ last' = [op |-> "searchCreate", created |-> created]
       /\ UNCHANGED indexing
       /\ UNCHANGED <<settings, now, messageBuffer, chunkTimer, timers,
                      flushes, points, offered, switches>>

\* the query's embedding arrives: the cutoff is computed from the live chat
\* and the search request is sent
SearchEmbeddingAnswer ==
  \E outcome \in {"vector", "null", "rejected"} :
    /\ search.phase = "embedding"
    /\ IF outcome = "vector"
         THEN LET chat == removeExistingMemoryEntries(context.chat)
                  timestampThreshold == TimestampThreshold(chat, settings)
              IN /\ context' = [context EXCEPT !.chat = chat]
                 /\ search' = [search EXCEPT !.phase = "searching"] @@
                              [timestampThreshold |-> timestampThreshold,
                               searchPayload |->
                                 SearchPayload(timestampThreshold, settings,
                                               search.characterName)]
         ELSE SearchReturns([phase |-> "done", result |-> {}], context.chat)
    /\ last' = [op |-> "searchEmbedding", outcome |-> outcome]
    /\ UNCHANGED indexing
    /\ UNCHANGED <<settings, now, messageBuffer, chunkTimer, timers, flushes,
                   collections, dimensions, points, offered, switches>>

\* a search that hands on whatever the response carries
SearchResult_IgnoringStatus(ok, found) == found

\* [] for a response that is not ok or a request that fails, data.result
\* otherwise
SearchResult(ok, found) == IF ok THEN found ELSE {}

\* the answer to the search request: an error, or up to `limit` of the
\* matching points (the scores decide which)
SearchAnswer ==
  /\ search.phase = "searching"
  /\ \E ok \in BOOLEAN :
    \E found \in SUBSET Matching(points, search.collectionName, search.searchPayload) :
      /\ Cardinality(found) <= search.searchPayload.limit
      /\ SearchReturns([phase |-> "done", result |-> SearchResult(ok, found),
                        timestampThreshold |-> search.timestampThreshold,
                        searchPayload |-> search.searchPayload], context.chat)
      /\ last' = [op |-> "searchAnswer", ok |-> ok]
      /\ UNCHANGED indexing
      /\ UNCHANGED <<settings, now, messageBuffer, chunkTimer, timers, flushes,
                     collections, dimensions, points, offered, switches>>

\* the values of send_date the host's messages carry
SendDates ==
  {Num(1), Num(2), Str("3"), Str("2024-01-04"), Str("abc"), Str(""), Undefined}

\* a turn of the character in a live chat, its send_date to be set
DatedTurn ==
  [name |-> Alice, is_user |-> FALSE, is_system |-> FALSE, mes |-> 594,
   send_date |-> Undefined, memory |-> FALSE]

\* the entries of a live chat: real turns and injected memory entries
ChatEntries ==
  {[name |-> Alice, is_user |-> FALSE, is_system |-> FALSE, mes |-> 594,
    send_date |-> d, memory |-> FALSE] : d \in SendDates}
  \cup {[name |-> SystemName, is_user |-> FALSE, is_system |-> TRUE, mes |-> 594,
         send_date |-> Num(5), memory |-> TRUE]}

RetainChoices == {0, 1, 2}

\* a point stored earlier for a character: a chunk with timestamp 1
StoredSample(s, characterName, id) ==
  [ collection |-> getCollectionName(s, characterName),
    id |-> id,
    character |-> characterName,
    payload |-> ChunkPayload([SampleChunk EXCEPT !.timestamp = Num(1)]) ]

InitSearch ==
  /\ settings \in {[s EXCEPT !.retainRecentMessages = r] :
                     s \in {SavedSettings, SharedSettings}, r \in RetainChoices}
                  \cup {[SavedSettings EXCEPT !.enabled = FALSE]}
  /\ context \in {[name2 |-> Alice, characters |-> {Alice}, chat |-> c] :
                    c \in UNION {[1..n -> ChatEntries] : n \in 0..MaxChat}}
  /\ now = 5
  /\ messageBuffer = <<>>
  /\ chunkTimer = 0
  /\ timers = {}
  /\ flushes = <<>>
  /\ points \in SUBSET {StoredSample(settings, Alice, 1), StoredSample(settings, Bob, 2)}
  /\ collections \in {{p.collection : p \in points} \cup c :
                       c \in SUBSET {getCollectionName(settings, Alice)}}
  /\ dimensions = CreatedWith(collections, settings)
  /\ offered = {}
  /\ switches = 0
  /\ last = [op |-> "init"]
  /\ search = [phase |-> "idle"]
  /\ indexing = [phase |-> "idle"]

NextSearch ==
  \/ SearchCall
  \/ SearchProbeAnswer
  \/ SearchCreateAnswer
  \/ SearchEmbeddingAnswer
  \/ SearchAnswer

SpecSearch == InitSearch /\ [][NextSearch]_vars

\* ------------------------------------------------ generation interceptor
\* the number of the interceptor's passes so far
PassNumber(sr) == IF "pass" \in DOMAIN sr THEN sr.pass ELSE 0

\* variant: the last entry of the chat, whoever wrote it
LastUserMsg_AnyTurn(chat) == IF chat = <<>> THEN Null ELSE chat[Len(chat)]

RECURSIVE LastUserMsg(_)
\* chat.slice().reverse().find((msg) => msg.is_user), Null for undefined
LastUserMsg(chat) ==
  IF chat = <<>> THEN Null
  ELSE IF chat[Len(chat)].is_user THEN chat[Len(chat)]
  ELSE LastUserMsg(SubSeq(chat, 1, Len(chat) - 1))

\* the number of injected memory entries of a chat
MemoryCount(chat) == Len(SelectSeq(chat, isQdrantMemoryMessage))

\* a pass that ends before it calls searchMemories
PassSkipped(pass, removed, outcome) ==
  [ phase |-> "done", result |-> {}, caller |-> "interceptor", pass |-> pass,
    removed |-> removed, outcome |-> outcome ]

\* The host calls qdrantMemoryInterceptor on the live chat before a
\* generation: the pass runs up to the first request of searchMemories, or
\* to its return.
InterceptorCall ==
  LET pass == PassNumber(search) + 1
      chat == removeExistingMemoryEntries(context.chat)
      removed == MemoryCount(context.chat)
      lastUserMsg == LastUserMsg(chat)
  IN /\ search.phase \in {"idle", "done"}
     /\ PassNumber(search) < MaxPasses
     /\ IF ~settings.enabled \/ context.name2 = NoName
          THEN /\ search' = PassSkipped(pass, 0, "skipped")
               /\ context' = context
          ELSE /\ context' = [context EXCEPT !.chat = chat]
               /\ search' =
                    IF lastUserMsg = Null \/ lastUserMsg.mes = 0
                      THEN PassSkipped(pass, removed, "noquery")
                      ELSE [ phase |-> "probing",
                             characterName |-> context.name2,
                             collectionName |->
                               getCollectionName(settings, context.name2),
                             caller |-> "interceptor", pass |-> pass,
                             removed |-> removed ]
     /\ last' = [op |-> "interceptor", pass |-> pass]
     /\ UNCHANGED indexing
     /\ UNCHANGED <<settings, now, messageBuffer, chunkTimer, timers, flushes,
                    collections, dimensions, points, offered, switches>>

\* the user ticks or unticks "Enable Qdrant Memory"
ToggleEnabled ==
  /\ switches < MaxSwitches
  /\ switches' = switches + 1
  /\ settings' = [settings EXCEPT !.enabled = ~@]
  /\ last' = [op |-> "toggleEnabled"]
  /\ UNCHANGED retrievalVars
  /\ UNCHANGED <<context, now, messageBuffer, chunkTimer, timers, flushes,
                 collections, dimensions, points, offered>>

\* the values of the Memory Position slider the model takes
PositionChoices == {1, 2, 4}

\* a point another writer stored in the namespace: its payload has no text
ForeignSample(s, characterName, id) ==
  [ collection |-> getCollectionName(s, characterName),
    id |-> id,
    character |-> characterName,
    payload |-> [timestamp |-> Num(1), isChunk |-> TRUE] ]

\* the entries of the chat the interceptor is called on: user turns (one
\* with empty text), a character's turn and an injected memory entry
InterceptEntries ==
  {[name |-> You, is_user |-> TRUE, is_system |-> FALSE, mes |-> m,
    send_date |-> Num(1), memory |-> FALSE] : m \in {0, 594}}
  \cup {[name |-> Alice, is_user |-> FALSE, is_system |-> FALSE, mes |-> 594,
         send_date |-> Num(2), memory |-> FALSE]}
  \cup {MemoryEntry({StoredSample(SavedSettings, Alice, 1)}, 3)}

InitIntercept ==
  /\ settings \in {[SavedSettings EXCEPT !.memoryPosition = m] : m \in PositionChoices}
  /\ context \in {[name2 |-> n, characters |-> {Alice}, chat |-> c] :
                    n \in {Alice, NoName},
                    c \in UNION {[1..k -> InterceptEntries] : k \in 0..MaxChat}}
  /\ now = 5
  /\ messageBuffer = <<>>
  /\ chunkTimer = 0
  /\ timers = {}
  /\ flushes = <<>>
  /\ points \in SUBSET {StoredSample(settings, Alice, 1), ForeignSample(settings, Alice, 2)}
  /\ collections \in {{p.collection : p \in points} \cup c :
                       c \in SUBSET {getCollectionName(settings, Alice)}}
  /\ dimensions = CreatedWith(collections, settings)
  /\ offered = {}
  /\ switches = 0
  /\ last = [op |-> "init"]
  /\ search = [phase |-> "idle"]
  /\ indexing = [phase |-> "idle"]

NextIntercept ==
  \/ InterceptorCall
  \/ ToggleEnabled
  \/ SearchProbeAnswer
  \/ SearchCreateAnswer
  \/ SearchEmbeddingAnswer
  \/ SearchAnswer

SpecIntercept == InitIntercept /\ [][NextIntercept]_vars

\* the passes of a chat that starts without memory entries
InitPasses ==
  /\ InitIntercept
  /\ MemoryCount(context.chat) = 0

SpecPasses == InitPasses /\ [][NextIntercept]_vars

\* -------------------------------------------------------- bulk indexer
\* Number.POSITIVE_INFINITY
Infinity == [type |-> "infinity"]

\* the order of the strings of the model under JavaScript's string comparison
StringRank(str) ==
  CASE str = "" -> 0
    [] str = "2024-01-04" -> 1
    [] str = "3" -> 2
    [] OTHER -> 3

\* ToNumber of a send_date value
ToNumber(d) ==
  CASE d.type \in {"number", "date"} -> d.v
    [] d.type = "string" -> StringToNumber(d.v)
    [] OTHER -> NaN

\* a < b of JavaScript: two strings by code units, anything else as numbers,
\* and false when a side is NaN
JsLess(a, b) ==
  IF a.type = "string" /\ b.type = "string"
    THEN StringRank(a.v) < StringRank(b.v)
  ELSE IF a.type = "infinity" THEN FALSE
  ELSE IF ToNumber(a) = NaN THEN FALSE
  ELSE IF b.type = "infinity" THEN TRUE
  ELSE ToNumber(b) # NaN /\ ToNumber(a) < ToNumber(b)

\* the values `||` replaces
Falsy(d) ==
  \/ d.type = "undefined"
  \/ d.type = "number" /\ d.v \in {0, NaN}
  \/ d.type = "string" /\ d.v = ""

\* new Date(value).toISOString() does not throw
ValidDate(d) ==
  CASE d.type \in {"number", "date"} -> d.v # NaN
    [] d.type = "string" -> DateParse(d.v) # NaN
    [] OTHER -> FALSE

RECURSIVE OldestTimestamp(_, _)
\* the forEach of createChunkFromMessages over msg.timestamp
OldestTimestamp(messages, oldestTimestamp) ==
  IF messages = <<>> THEN oldestTimestamp
  ELSE OldestTimestamp(Tail(messages),
         IF JsLess(Head(messages).timestamp, oldestTimestamp)
           THEN Head(messages).timestamp ELSE oldestTimestamp)

createChunkFromMessages(messages, t) ==
  LET oldestTimestamp == OldestTimestamp(messages, Infinity)
  IN [ lines |-> [i \in 1..Len(messages) |-> ChunkLine(messages[i])],
       dated |-> oldestTimestamp # Infinity /\ ValidDate(oldestTimestamp),
       speakers |-> SeqToSetOrdered(
                      [i \in 1..Len(messages) |-> SpeakerLabel(messages[i])], {}),
       messageIds |-> [i \in 1..Len(messages) |-> messages[i].messageId],
       messageCount |-> Len(messages),
       timestamp |-> IF oldestTimestamp # Infinity THEN oldestTimestamp ELSE Num(t) ]

\* the messages createChunksFromChat skips
SkipsMessage(msg, s) ==
  \/ msg.is_system
  \/ msg.mes < s.minMessageLength
  \/ msg.is_user /\ ~s.saveUserMessages
  \/ ~msg.is_user /\ ~s.saveCharacterMessages

\* variant: the identifier holds the name and the send_date only
MessageObj_WithoutIndex(messages, i, characterName, t) ==
  [ text |-> messages[i].mes,
    characterName |-> characterName,
    isUser |-> messages[i].is_user,
    messageId |-> <<characterName, messages[i].send_date, 0>>,
    timestamp |-> IF Falsy(messages[i].send_date) THEN Num(t)
                  ELSE messages[i].send_date ]

\* messageObj of the message at position i (1-based) of the transcript
MessageObj(messages, i, characterName, t) ==
  [ text |-> messages[i].mes,
    characterName |-> characterName,
    isUser |-> messages[i].is_user,
    messageId |-> <<characterName, messages[i].send_date, i - 1>>,
    timestamp |-> IF Falsy(messages[i].send_date) THEN Num(t)
                  ELSE messages[i].send_date ]

\* variant: no group is closed for the size the next turn would bring
ClosesBefore_Never(currentChunk, messageSize, s) == FALSE

\* currentSize + messageSize > settings.chunkMaxSize && currentChunk.length > 0
ClosesBefore(currentChunk, messageSize, s) ==
  /\ BufferSize(currentChunk) + messageSize > s.chunkMaxSize
  /\ Len(currentChunk) > 0

\* variant: a group of two turns is closed
ClosesAfter_AtTwoTurns(currentChunk, s) ==
  /\ BufferSize(currentChunk) >= s.chunkMinSize
  /\ Len(currentChunk) >= 2

\* currentSize >= settings.chunkMinSize && currentChunk.length >= 3
ClosesAfter(currentChunk, s) ==
  /\ BufferSize(currentChunk) >= s.chunkMinSize
  /\ Len(currentChunk) >= 3

RECURSIVE ChunkLoop(_, _, _, _, _, _, _)
\* the loop of createChunksFromChat from position i on
ChunkLoop(messages, i, currentChunk, chunks, characterName, s, t) ==
  IF i > Len(messages)
    THEN IF Len(currentChunk) > 0
           THEN Append(chunks, createChunkFromMessages(currentChunk, t))
           ELSE chunks
  ELSE IF SkipsMessage(messages[i], s)
    THEN ChunkLoop(messages, i + 1, currentChunk, chunks, characterName, s, t)
  ELSE
    LET messageObj == MessageObj(messages, i, characterName, t)
        messageSize == messageObj.text + Len(characterName) + 4
        closeBefore == ClosesBefore(currentChunk, messageSize, s)
        chunks1 == IF closeBefore
                     THEN Append(chunks, createChunkFromMessages(currentChunk, t))
                     ELSE chunks
        current1 == Append(IF closeBefore THEN <<>> ELSE currentChunk, messageObj)
        closeAfter == ClosesAfter(current1, s)
    IN IF closeAfter
         THEN ChunkLoop(messages, i + 1, <<>>,
                        Append(chunks1, createChunkFromMessages(current1, t)),
                        characterName, s, t)
         ELSE ChunkLoop(messages, i + 1, current1, chunks1, characterName, s, t)

createChunksFromChat(messages, characterName, s, t) ==
  ChunkLoop(messages, 1, <<>>, <<>>, characterName, s, t)

\* the names getCharacterChats can answer with
ChatFileLists == {<<>>, <<"chat.jsonl">>}

\* the phases in which a run of indexCharacterChats has ended
IndexEnded == {"refused", "nofiles", "cancelled", "completed", "errored"}

\* the number of the runs so far
RunNumber(ix) == IF "run" \in DOMAIN ix THEN ix.run ELSE 0

\* history: what the run before reported, for the comparison of two runs
ReportOf(ix) ==
  IF "savedChunks" \in DOMAIN ix
    THEN [phase |-> ix.phase, savedChunks |-> ix.savedChunks,
          skippedChunks |-> ix.skippedChunks, totalChunks |-> ix.totalChunks,
          unanswered |-> ix.unanswered]
    ELSE [phase |-> ix.phase]

\* the user starts indexCharacterChats: it runs up to getCharacterChats
IndexCall ==
  /\ indexing.phase \in {"idle"} \cup IndexEnded
  /\ RunNumber(indexing) < MaxRuns
  /\ indexing' =
       IF \/ context.name2 = NoName
          \/ providerRequiresApiKey(settings.provider)
               /\ getEffectiveEmbeddingApiKey(settings) = ""
         THEN [phase |-> "refused", run |-> RunNumber(indexing) + 1]
         ELSE [phase |-> "listing", characterName |-> context.name2,
               files |-> <<>>, chunks |-> <<>>, cancelled |-> FALSE,
               totalChunks |-> 0, savedChunks |-> 0, skippedChunks |-> 0,
               flush |-> 0, run |-> RunNumber(indexing) + 1,
               unanswered |-> 0, before |-> ReportOf(indexing)]
  /\ last' = [op |-> "indexCharacterChats"]
  /\ UNCHANGED <<settings, context, now, messageBuffer, chunkTimer, timers,
                 flushes, collections, dimensions, points, offered, switches,
                 search>>

\* the click on Cancel
IndexCancel ==
  /\ indexing.phase \in {"listing", "probing", "creating", "loading",
                         "checking", "saving"}
  /\ ~indexing.cancelled
  /\ indexing' = [indexing EXCEPT !.cancelled = TRUE]
  /\ last' = [op |-> "indexCancel"]
  /\ UNCHANGED <<settings, context, now, messageBuffer, chunkTimer, timers,
                 flushes, collections, dimensions, points, offered, switches,
                 search>>

\* getCharacterChats answers ([] when the request fails)
IndexListAnswer ==
  \E chatFiles \in ChatFileLists :
    /\ indexing.phase = "listing"
    /\ indexing' = IF Len(chatFiles) = 0
                     THEN [indexing EXCEPT !.phase = "nofiles"]
                     ELSE [indexing EXCEPT !.phase = "probing", !.files = chatFiles]
    /\ last' = [op |-> "indexList", chatFiles |-> chatFiles]
    /\ UNCHANGED <<settings, context, now, messageBuffer, chunkTimer, timers,
                   flushes, collections, dimensions, points, offered, switches,
                   search>>

\* ensureCollection of the indexer: the probe; its result is not used
IndexProbeAnswer ==
  \E reachable \in BOOLEAN :
    LET exists == /\ reachable
                  /\ getCollectionName(settings, indexing.characterName) \in collections
    IN /\ indexing.phase = "probing"
       /\ indexing' = IF exists THEN NextFile(indexing)
                      ELSE [indexing EXCEPT !.phase = "creating"]
       /\ last' = [op |-> "indexProbe", exists |-> exists]
       /\ UNCHANGED <<settings, context, now, messageBuffer, chunkTimer,
                      timers, flushes, collections, dimensions, points,
                      offered, switches, search>>

IndexCreateAnswer ==
  \E reachable \in BOOLEAN :
    LET collectionName == getCollectionName(settings, indexing.characterName)
        created == reachable /\ collectionName \notin collections
    IN /\ indexing.phase = "creating"
       /\ collections' = IF created THEN collections \cup {collectionName}
                         ELSE collections
       /\ dimensions' = IF created THEN Created(dimensions, collectionName, settings)
                          ELSE dimensions
       /\ indexing' = NextFile(indexing)
       /\ last' = [op |-> "indexCreate", created |-> created]
       /\ UNCHANGED <<settings, context, now, messageBuffer, chunkTimer, timers,
                      flushes, points, offered, switches, search>>

\* loadChatFile answers: null, the transcript the host saved of the live
\* chat, or a transcript with an entry that is no message (null), on which
\* createChunksFromChat throws; the chunks are built
IndexLoadAnswer ==
  \E loaded \in {"null", "transcript", "malformed"} :
    LET chatData == context.chat
        chunks == createChunksFromChat(chatData, indexing.characterName, settings, now)
    IN /\ indexing.phase = "loading"
       /\ indexing' =
            CASE loaded = "transcript" ->
                   NextChunk([indexing EXCEPT !.chunks = chunks,
                                              !.totalChunks = @ + Len(chunks)])
              [] loaded = "null" ->
                   NextFile([indexing EXCEPT !.unanswered = @ + 1])
              [] OTHER -> [indexing EXCEPT !.phase = "errored"]
       /\ last' = [op |-> "indexLoad", loaded |-> loaded]
       /\ UNCHANGED <<settings, context, now, messageBuffer, chunkTimer,
                      timers, flushes, collections, dimensions, points,
                      offered, switches, search>>

\* storage: a point of the namespace holds one of the identifiers
StoredWithAny(stored, collectionName, messageIds) ==
  \E p \in stored :
    /\ p.collection = collectionName
    /\ \E i \in DOMAIN messageIds, j \in DOMAIN p.payload.messageIds :
         messageIds[i] = p.payload.messageIds[j]

\* variant: the chunk goes to every character of the group
IndexParticipants_WholeGroup(ix, ctx) ==
  LET others == ctx.characters \ {ix.characterName}
  IN IF others = {} THEN <<ix.characterName>>
     ELSE <<ix.characterName, CHOOSE c \in others : TRUE>>

\* `participants` of the chunk loop: the current character alone
IndexParticipants(ix, ctx) == <<ix.characterName>>

\* chunkExists answers (false when the request fails); a chunk that is not
\* found is handed to saveChunkToQdrant with the one participant
IndexExistsAnswer ==
  \E reachable \in BOOLEAN :
    LET chunk == Head(indexing.chunks)
        collectionName == getCollectionName(settings, indexing.characterName)
        exists == reachable /\ StoredWithAny(points, collectionName, chunk.messageIds)
    IN /\ indexing.phase = "checking"
       /\ IF exists
            THEN /\ indexing' = NextChunk([indexing EXCEPT !.chunks = Tail(@),
                                                           !.skippedChunks = @ + 1])
                 /\ flushes' = flushes
            ELSE /\ flushes' = Append(flushes,
                      NewFlush(chunk, IndexParticipants(indexing, context),
                               "indexCharacterChats"))
                 /\ indexing' = [indexing EXCEPT
                                   !.phase = "saving",
                                   !.flush = Len(flushes) + 1,
                                   !.unanswered = IF reachable THEN @ ELSE @ + 1]
       /\ last' = [op |-> "indexExists", exists |-> exists]
       /\ UNCHANGED <<settings, context, now, messageBuffer, chunkTimer,
                      timers, collections, dimensions, points, offered,
                      switches, search>>

\* ------------------------------------------ the bulk indexer on its own
\* the first run of the indexer
FirstIndexCall == indexing.phase = "idle" /\ IndexCall

\* a turn of the character that fills a chunk alone
FullTurn(i) ==
  [name |-> Alice, is_user |-> FALSE, is_system |-> FALSE, mes |-> 1494,
   send_date |-> Num(i), memory |-> FALSE]

\* the transcripts of the chat file: one chunk per turn
IndexTranscripts == {[i \in 1..k |-> FullTurn(i)] : k \in 1..(MaxChat - 1)}

\* the points an earlier run wrote for the chunks of a transcript
IndexedBefore(s, chat, characterName, t) ==
  LET chunks == createChunksFromChat(chat, characterName, s, t)
  IN {[collection |-> getCollectionName(s, characterName),
       id |-> 0 - k,
       character |-> characterName,
       payload |-> ChunkPayload(chunks[k])] : k \in DOMAIN chunks}

\* a group chat with Alice selected; the storage is empty, or holds the
\* first chunk of the transcript
InitIndex ==
  /\ settings \in {SavedSettings, SharedSettings}
  /\ context \in {[name2 |-> Alice, characters |-> {Alice, Bob}, chat |-> c] :
                    c \in IndexTranscripts}
  /\ now = 0
  /\ messageBuffer = <<>>
  /\ chunkTimer = 0
  /\ timers = {}
  /\ flushes = <<>>
  /\ points \in SUBSET {p \in IndexedBefore(settings, context.chat, Alice, now) :
                          p.id = 0 - 1}
  /\ collections = {p.collection : p \in points}
  /\ dimensions = CreatedWith(collections, settings)
  /\ offered = {}
  /\ switches = 0
  /\ last = [op |-> "init"]
  /\ search = [phase |-> "idle"]
  /\ indexing = [phase |-> "idle"]

NextIndex ==
  \/ FirstIndexCall
  \/ IndexCancel
  \/ IndexListAnswer
  \/ IndexProbeAnswer
  \/ IndexCreateAnswer
  \/ IndexLoadAnswer
  \/ IndexExistsAnswer
  \/ EmbeddingAnswer
  \/ CollectionProbeAnswer
  \/ CreateAnswer
  \/ UpsertAnswer

SpecIndex == InitIndex /\ [][NextIndex]_vars

\* every request of a run is answered in the end (fetch settles)
SpecIndexFair ==
  /\ SpecIndex
  /\ WF_vars(IndexListAnswer)
  /\ WF_vars(IndexProbeAnswer)
  /\ WF_vars(IndexCreateAnswer)
  /\ WF_vars(IndexLoadAnswer)
  /\ WF_vars(IndexExistsAnswer)
  /\ WF_vars(EmbeddingAnswer)
  /\ WF_vars(CollectionProbeAnswer)
  /\ WF_vars(CreateAnswer)
  /\ WF_vars(UpsertAnswer)

\* ------------------------------------- createChunksFromChat on its inputs
\* the entries of a transcript: turns of the character of three lengths, a
\* turn below minMessageLength, a turn of the user, a system entry
TranscriptEntries ==
  {[name |-> Alice, is_user |-> FALSE, is_system |-> FALSE, mes |-> n,
    send_date |-> Num(1), memory |-> FALSE] : n \in {3, 94, 594, 1494}}
  \cup {[name |-> You, is_user |-> TRUE, is_system |-> FALSE, mes |-> 594,
         send_date |-> Num(1), memory |-> FALSE],
        [name |-> SystemName, is_user |-> FALSE, is_system |-> TRUE, mes |-> 594,
         send_date |-> Num(1), memory |-> TRUE]}

ChunkingSettings ==
  { SavedSettings,
    [SavedSettings EXCEPT !.saveUserMessages = FALSE],
    [SavedSettings EXCEPT !.saveCharacterMessages = FALSE] }

InitChunking ==
  /\ settings \in ChunkingSettings
  /\ context \in {[name2 |-> Alice, characters |-> {Alice}, chat |-> c] :
                    c \in UNION {[1..n -> TranscriptEntries] : n \in 0..MaxChat}}
  /\ now = 0
  /\ messageBuffer = <<>>
  /\ chunkTimer = 0
  /\ timers = {}
  /\ flushes = <<>>
  /\ collections = {}
  /\ dimensions = CreatedWith(collections, settings)
  /\ points = {}
  /\ offered = {}
  /\ switches = 0
  /\ last = [op |-> "init"]
  /\ search = [phase |-> "idle"]
  /\ indexing = [phase |-> "idle"]

\* a run up to the chunks of the transcript
NextChunking ==
  \/ FirstIndexCall
  \/ IndexListAnswer
  \/ IndexProbeAnswer
  \/ IndexCreateAnswer
  \/ IndexLoadAnswer

SpecChunking == InitChunking /\ [][NextChunking]_vars

\* ---------------------------------------------- the indexer, run again
NextReindex ==
  \/ IndexCall
  \/ IndexCancel
  \/ IndexListAnswer
  \/ IndexProbeAnswer
  \/ IndexCreateAnswer
  \/ IndexLoadAnswer
  \/ IndexExistsAnswer
  \/ EmbeddingAnswer
  \/ CollectionProbeAnswer
  \/ CreateAnswer
  \/ UpsertAnswer

SpecReindex == InitIndex /\ [][NextReindex]_vars

\* ------------------------- live buffering, bulk indexing and retrieval
\* the most recent turn is retained
RecencySettings == [SavedSettings EXCEPT !.retainRecentMessages = 1]

InitRecency ==
  /\ settings = RecencySettings
  /\ context = [name2 |-> Alice, characters |-> {Alice}, chat |-> <<>>]
  /\ now = 0
  /\ messageBuffer = <<>>
  /\ chunkTimer = 0
  /\ timers = {}
  /\ flushes = <<>>
  /\ collections = {}
  /\ dimensions = CreatedWith(collections, settings)
  /\ points = {}
  /\ offered = {}
  /\ switches = 0
  /\ last = [op |-> "init"]
  /\ search = [phase |-> "idle"]
  /\ indexing = [phase |-> "idle"]

\* the live chat and the indexer share the bound on the calls of
\* saveChunkToQdrant
BoundedIndexExistsAnswer == IndexExistsAnswer /\ Len(flushes') <= MaxFlushes

NextRecency ==
  \/ HostMessage
  \/ TimerFires
  \/ EmbeddingAnswer
  \/ CollectionProbeAnswer
  \/ CreateAnswer
  \/ UpsertAnswer
  \/ FirstIndexCall
  \/ IndexCancel
  \/ IndexListAnswer
  \/ IndexProbeAnswer
  \/ IndexCreateAnswer
  \/ IndexLoadAnswer
  \/ BoundedIndexExistsAnswer
  \/ SearchCall
  \/ SearchProbeAnswer
  \/ SearchCreateAnswer
  \/ SearchEmbeddingAnswer
  \/ SearchAnswer

SpecRecency == InitRecency /\ [][NextRecency]_vars

\* ===================================================== buffering: claims
\* the flushes whose chunk has the turn `id` as a member
ChunksOf(id) ==
  {f \in DOMAIN flushes :
     \E i \in DOMAIN flushes[f].chunk.messageIds : flushes[f].chunk.messageIds[i] = id}

MessageIdsOf(buf) == [i \in 1..Len(buf) |-> buf[i].messageId]

\* nothing is pending: no turn buffered, no timer armed, no flush in flight
Quiescent ==
  /\ messageBuffer = <<>>
  /\ timers = {}
  /\ \A f \in DOMAIN flushes : flushes[f].phase = "returned"

\* flush f returns to its caller in this step
FlushEnds(f) ==
  /\ f \in DOMAIN flushes'
  /\ flushes'[f].caller = "processMessageBuffer"
  /\ flushes'[f].phase = "returned"
  /\ f \in DOMAIN flushes => flushes[f].phase # "returned"

\* the rejection conditions of addTurn as the specification lists them
SpecRejects(s, text, isUser) ==
  \/ ~s.autoSaveMemories
  \/ s.provider \in {"openai", "openrouter", "huggingface"} /\ s.apiKey = ""
  \/ text < s.minMessageLength
  \/ (IF isUser THEN ~s.saveUserMessages ELSE ~s.saveCharacterMessages)

\* this step is an addTurn that is accepted / rejected
AcceptedAdd ==
  /\ last'.op = "onMessageSent"
  /\ last'.called
  /\ ~SpecRejects(settings, last'.text, last'.isUser)

RejectedAdd ==
  /\ last'.op = "onMessageSent"
  /\ SpecRejects(settings, last'.text, last'.isUser)

\* the buffer an accepted addTurn produces, and its size
AddedBuffer ==
  Append(messageBuffer,
         [text |-> last'.text, characterName |-> last'.characterName,
          isUser |-> last'.isUser, messageId |-> last'.messageId])

AddedSize == BufferSize(AddedBuffer)

\* C1: every turn accepted into the Buffer ends up as a member of exactly one
\* built Chunk: never of two chunks, and of one once nothing is pending any
\* more, also when turns arrive while flushes are in flight.
C1_AcceptedTurnInExactlyOneChunk ==
  /\ \A id \in offered : Cardinality(ChunksOf(id)) <= 1
  /\ Quiescent => \A id \in offered : Cardinality(ChunksOf(id)) = 1

\* C2: in every reachable state the Buffer holds only turns that are not yet
\* a member of a built Chunk (the flush empties the Buffer in the step in
\* which it captures the turns).
C2_BufferHoldsOnlyUncommittedTurns ==
  \A i \in DOMAIN messageBuffer : ChunksOf(messageBuffer[i].messageId) = {}

\* C3: a flush that found a non-empty Buffer ends with the Buffer empty
\* whatever its outcome, and its end issues no retry: it starts no flush
\* other than itself and arms no timer, and a flush sends at most one
\* embedding request and at most one upsert per participant.
C3_SentOnce ==
  \A f \in DOMAIN flushes :
    /\ flushes[f].embedRequests <= 1
    /\ \A i, j \in DOMAIN flushes[f].upserts :
         flushes[f].upserts[i].character = flushes[f].upserts[j].character => i = j

C3_EndStep ==
  \A f \in DOMAIN flushes' :
    FlushEnds(f) =>
      /\ messageBuffer' = <<>>
      /\ timers' \subseteq timers
      /\ DOMAIN flushes' \ DOMAIN flushes \subseteq {f}
      /\ \A g \in DOMAIN flushes : g # f => flushes'[g] = flushes[g]

C3_FlushClearsBufferAndNeverRetries == [](C3_SentOnce) /\ [][C3_EndStep]_vars

\* a flush whose only write failed has ended, and the Buffer is empty
C3_Witness ==
  /\ last.op = "upsert" /\ last.outcome = "error"
  /\ flushes[last.flush].phase = "returned"
  /\ flushes[last.flush].result = "false"
  /\ messageBuffer = <<>>

\* C4: an accepted addTurn that brings the buffered size to chunkMaxSize or
\* more starts the flush inside the same call (the chunk holds the buffered
\* turns, the new one included) and leaves no timer armed.
C4_Step ==
  (AcceptedAdd /\ AddedSize >= settings.chunkMaxSize) =>
    /\ Len(flushes') = Len(flushes) + 1
    /\ flushes'[Len(flushes')].chunk.messageIds = MessageIdsOf(AddedBuffer)
    /\ timers' = {}

C4_MaxSizeFlushesAtOnce == [][C4_Step]_vars

\* two accumulated turns reached the maximum size: the flush is in flight
C4_Witness ==
  /\ last.op = "onMessageSent" /\ last.called
  /\ Len(messageBuffer) >= 2
  /\ BufferSize(messageBuffer) >= settings.chunkMaxSize
  /\ flushes # <<>>
  /\ flushes[Len(flushes)].phase = "embedding"
  /\ flushes[Len(flushes)].chunk.messageCount = Len(messageBuffer)
  /\ timers = {}

\* C5: an accepted addTurn that leaves the size below chunkMaxSize starts no
\* flush and arms exactly one timer, the 5-second one if the size reached
\* chunkMinSize and the chunkTimeout one otherwise; a flush starts only in
\* such an addTurn at maximum size or when a timer expires; an armed timer
\* stays armed until it expires or a further turn is accepted; and the expiry
\* calls the flush on the buffered turns.
C5_ArmStep ==
  (AcceptedAdd /\ AddedSize < settings.chunkMaxSize) =>
    /\ flushes' = flushes
    /\ messageBuffer' = AddedBuffer
    /\ timers' = {[id |-> chunkTimer',
                   delay |-> IF AddedSize >= settings.chunkMinSize
                               THEN 5000 ELSE settings.chunkTimeout]}

C5_FlushOnlyOnExpiryOrMaxSize ==
  Len(flushes') > Len(flushes) =>
    \/ last'.op = "timer"
    \/ AcceptedAdd /\ AddedSize >= settings.chunkMaxSize

C5_TimerStaysArmed ==
  \A t \in timers : t \notin timers' => (last'.op = "timer" \/ AcceptedAdd)

C5_ExpiryStep ==
  (last'.op = "timer" /\ messageBuffer # <<>>) =>
    /\ Len(flushes') = Len(flushes) + 1
    /\ flushes'[Len(flushes')].chunk.messageIds = MessageIdsOf(messageBuffer)

C5_BelowMaxWaitsForTimer ==
  [][C5_ArmStep /\ C5_FlushOnlyOnExpiryOrMaxSize /\ C5_TimerStaysArmed /\ C5_ExpiryStep]_vars

\* the 5-second timer expired and its callback started the flush
C5_Witness ==
  /\ last.op = "timer" /\ last.timer.delay = 5000
  /\ flushes # <<>>
  /\ flushes[Len(flushes)].phase = "embedding"
  /\ flushes[Len(flushes)].chunk.messageCount = 2

\* C6: a rejected addTurn is a no-op: the Buffer, the timer handle, the armed
\* timers and the flushes are what they were.
C6_Step ==
  RejectedAdd =>
    /\ messageBuffer' = messageBuffer
    /\ chunkTimer' = chunkTimer
    /\ timers' = timers
    /\ flushes' = flushes

C6_RejectedAddIsNoOp == [][C6_Step]_vars

\* a turn of a type that is switched off was offered while a turn was
\* buffered and a timer armed
C6_Witness ==
  /\ last.op = "onMessageSent" /\ last.called
  /\ last.text >= settings.minMessageLength
  /\ SpecRejects(settings, last.text, last.isUser)
  /\ messageBuffer # <<>>
  /\ timers # {}

\* ============================================= saveChunkToQdrant: claims
\* the upserts a call has sent that are tagged with `name`
UpsertsTagged(rec, name) ==
  {k \in DOMAIN rec.upserts : rec.upserts[k].character = name}

\* participant i's namespace was found or created: its callback went on
NamespaceReady(rec, i) == rec.part[i] \in {"writing", "saved", "failed", "threw"}

Settled(rec) ==
  \A i \in DOMAIN rec.part : rec.part[i] \in {"saved", "failed", "notready", "threw"}

\* C7: one call with N participants sends exactly one embedding request and
\* then one upsert for each participant whose namespace is ready, to that
\* participant's namespace and tagged with that participant's name; while
\* the embedding is pending or after it failed no upsert is sent.
C7_EmbedOnceWritePerParticipant ==
  \A f \in DOMAIN flushes :
    LET rec == flushes[f]
    IN /\ rec.embedRequests = (IF Len(rec.participants) > 0 THEN 1 ELSE 0)
       /\ rec.embedding # "vector" => rec.upserts = <<>>
       /\ \A i \in DOMAIN rec.participants :
            Cardinality(UpsertsTagged(rec, rec.participants[i]))
              = (IF NamespaceReady(rec, i) THEN 1 ELSE 0)
       /\ \A k \in DOMAIN rec.upserts :
            \E i \in DOMAIN rec.participants :
              /\ rec.upserts[k].character = rec.participants[i]
              /\ rec.upserts[k].collection = getCollectionName(settings, rec.participants[i])
              /\ rec.upserts[k].id = rec.pointId
              /\ rec.upserts[k].payload = ChunkPayload(rec.chunk)

\* a call with two participants: one namespace could not be created, the
\* other participant's upsert was sent
C7_Witness ==
  \E f \in DOMAIN flushes :
    /\ Len(flushes[f].participants) = 2
    /\ flushes[f].part[1] = "notready"
    /\ flushes[f].part[2] = "saved"
    /\ Len(flushes[f].upserts) = 1

\* C8: saveChunkToQdrant reports success exactly when at least one
\* participant's write succeeded.
C8_SuccessIffSomeWriteSucceeded ==
  \A f \in DOMAIN flushes :
    (flushes[f].phase = "returned" /\ Settled(flushes[f])) =>
      (flushes[f].result = "true" <=> \E i \in DOMAIN flushes[f].part : flushes[f].part[i] = "saved")

\* ===================================================== retrieval: claims
\* the live turns that are no memory entry and whose send_date is a number,
\* a numeric string, a date or a date string
ResolvableTurns(chat) ==
  SelectSeq(chat, LAMBDA msg :
    /\ ~msg.memory
    /\ \/ msg.send_date.type \in {"number", "date"}
       \/ msg.send_date.type = "string"
            /\ (StringToNumber(msg.send_date.v) # NaN \/ DateParse(msg.send_date.v) # NaN))

\* the cutoff the specification prescribes for a chat and a retention count
SpecCutoff(chat, R) ==
  LET turns == ResolvableTurns(chat)
      n == Len(turns)
  IN IF R > 0 /\ n > R THEN normalizeSendDate(turns[n - R + 1].send_date) ELSE 0

\* C10: the cutoff of a search is the normalized timestamp of the filtered
\* turn at 0-based index n - R if R > 0 and n > R, and 0 otherwise, n being
\* the number of live turns that are no memory entry and have a resolvable
\* timestamp; the memory entries are removed from the chat before and do
\* not change the cutoff.
C10_Step ==
  (last'.op = "searchEmbedding" /\ last'.outcome = "vector") =>
    /\ search'.timestampThreshold = SpecCutoff(context.chat, settings.retainRecentMessages)
    /\ search'.timestampThreshold =
         SpecCutoff(SelectSeq(context.chat, LAMBDA msg : ~msg.memory),
                    settings.retainRecentMessages)
    /\ \A i \in DOMAIN context'.chat : ~context'.chat[i].memory

HoldsTurn(point, msg) ==
  \E j \in DOMAIN point.payload.messageIds :
    point.payload.messageIds[j][2] = msg.send_date

\* the timestamps of the turns do not decrease
NonDecreasing(turns) ==
  \A i, j \in DOMAIN turns :
    i < j => ~JsLess(turns[j].send_date, turns[i].send_date)

\* a search has been answered for the chat as it is now
AnsweredForThisChat ==
  /\ search.phase = "done"
  /\ "timestampThreshold" \in DOMAIN search
  /\ search.timestampThreshold = TimestampThreshold(context.chat, settings)

\* C9: when the live chat has more than retainRecentMessages turns, whose
\* timestamps do not decrease, a search returns no stored chunk that holds
\* one of the most recent retainRecentMessages turns, whether the chunk was
\* stored by the live buffer or by the bulk indexer. (Refuted: a chunk of
\* the bulk indexer carries its earliest member's timestamp.)
C9_RecentTurnsNeverRetrieved ==
  LET turns == getConversationMessages(context.chat)
      R == settings.retainRecentMessages
      n == Len(turns)
  IN (AnsweredForThisChat /\ n > R /\ NonDecreasing(turns)) =>
       \A p \in search.result :
         \A k \in (n - R + 1)..n : ~HoldsTurn(p, turns[k])

\* the conditions of a search request with a given key
ConditionsOn(payload, key) ==
  IF "filter" \in DOMAIN payload
    THEN {k \in DOMAIN payload.filter.must : payload.filter.must[k].key = key}
    ELSE {}

\* a search request has been built and not yet answered
RequestBuilt == search.phase = "searching"

\* C11: the search request carries the condition timestamp < cutoff iff
\* cutoff > 0, the exact-match condition on the character's name iff
\* per-character namespaces are disabled, both under `must` (a stored point
\* is returned only if it satisfies each of them), and no filter at all
\* when neither applies.
C11_FilterHasExactlyTheConditionsThatApply ==
  /\ RequestBuilt =>
       LET payload == search.searchPayload
           cutoff == search.timestampThreshold
           onTime == ConditionsOn(payload, "timestamp")
           onName == ConditionsOn(payload, "character")
       IN /\ Cardinality(onTime) = IF cutoff > 0 THEN 1 ELSE 0
          /\ \A k \in onTime : payload.filter.must[k].lt = cutoff
          /\ Cardinality(onName) = IF settings.usePerCharacterCollections THEN 0 ELSE 1
          /\ \A k \in onName : payload.filter.must[k].value = search.characterName
          /\ "filter" \in DOMAIN payload <=>
               (cutoff > 0 \/ ~settings.usePerCharacterCollections)
          /\ "filter" \in DOMAIN payload =>
               /\ DOMAIN payload.filter = {"must"}
               /\ Len(payload.filter.must) = Cardinality(onTime) + Cardinality(onName)
  /\ (search.phase = "done" /\ "searchPayload" \in DOMAIN search) =>
       \A p \in search.result :
         /\ search.timestampThreshold > 0 =>
              p.payload.timestamp.v < search.timestampThreshold
         /\ ~settings.usePerCharacterCollections => p.character = context.name2

\* a request with both conditions, in the shared namespace
C11_Witness ==
  /\ RequestBuilt
  /\ search.timestampThreshold = 2
  /\ ~settings.usePerCharacterCollections
  /\ Len(search.searchPayload.filter.must) = 2
  /\ Cardinality(points) = 2

\* the step is one of the failures of searchMemories: the feature is
\* disabled, the namespace cannot be ensured, the embedding of the query
\* fails, or the search request fails or is answered with an error
SearchFails ==
  \/ last'.op = "searchMemories" /\ ~settings.enabled
  \/ last'.op = "searchCreate" /\ ~last'.created
  \/ last'.op = "searchEmbedding" /\ last'.outcome # "vector"
  \/ last'.op = "searchAnswer" /\ ~last'.ok

\* C12: searchMemories returns an empty result (it returns, it does not
\* throw) when the feature is disabled, when the namespace cannot be
\* ensured, when the embedding of the query fails and when the search
\* request fails; the search request is sent only in the step in which the
\* embedding arrives, and the embedding is requested only in the step in
\* which the namespace is found or created.
C12_Step ==
  /\ SearchFails => search'.phase = "done" /\ search'.result = {}
  /\ (search'.phase = "searching" /\ search.phase # "searching") =>
       /\ search.phase = "embedding"
       /\ last'.op = "searchEmbedding" /\ last'.outcome = "vector"
  /\ (search'.phase = "embedding" /\ search.phase # "embedding") =>
       \/ search.phase = "probing" /\ last'.op = "searchProbe" /\ last'.exists
       \/ search.phase = "creating" /\ last'.op = "searchCreate" /\ last'.created
  /\ (search'.phase = "embedding" /\ search.phase # "embedding") =>
       search.collectionName \in collections'

C12_FailuresGiveEmptyAndSearchComesLast == [][C12_Step]_vars

\* the search request was answered with an error although a stored point
\* matched it
C12_Witness ==
  /\ last.op = "searchAnswer" /\ ~last.ok
  /\ search.phase = "done" /\ search.result = {}
  /\ Matching(points, getCollectionName(settings, context.name2),
              search.searchPayload) # {}

\* =================================================== interceptor: claims
\* a pass of the interceptor has ended
PassEnded == search.phase = "done" /\ CallerOf(search).caller = "interceptor"

\* the chat holds exactly one memory entry, at the 0-based index
\* max(0, L - memoryPosition), L being its length without memory entries
OneMemoryEntryInPlace ==
  LET chat == context.chat
      L == Len(removeExistingMemoryEntries(chat))
      index == IF L - settings.memoryPosition > 0 THEN L - settings.memoryPosition ELSE 0
  IN /\ MemoryCount(chat) = 1
     /\ chat[index + 1].memory

C14_AtMostOneAndNoneAfterEmptyPass ==
  /\ [](PassEnded =>
          /\ MemoryCount(context.chat) <= 1
          /\ search.result = {} => MemoryCount(context.chat) = 0)
  /\ [][removeExistingMemoryEntries(context'.chat)
          = removeExistingMemoryEntries(context.chat)]_vars

\* the step ends a pass with a failure of the retrieval or of the
\* formatting
PassFails ==
  /\ CallerOf(search).caller = "interceptor"
  /\ \/ SearchFails
     \/ search'.phase = "done" /\ search'.outcome = "fault"

\* C15: a pass in which the retrieval or the formatting fails ends
\* normally, and the chat gains no memory entry: it is the chat without
\* memory entries, as after a pass that retrieved nothing.
C15_Step ==
  PassFails =>
    /\ search'.phase = "done"
    /\ search'.outcome \in {"none", "fault"}
    /\ MemoryCount(context'.chat) = 0
    /\ context'.chat = removeExistingMemoryEntries(context.chat)

C15_FaultsDegradeToNoMemories == [][C15_Step]_vars

\* the retrieval returned a point whose text is missing: nothing is inserted
C15_Witness ==
  /\ PassEnded
  /\ search.outcome = "fault"
  /\ search.result # {}
  /\ MemoryCount(context.chat) = 0

\* ====================================================== reindexing: claims
\* a run of indexCharacterChats is between its first request and its end
IndexRunning ==
  indexing.phase \in {"listing", "probing", "creating", "loading", "checking",
                      "saving"}

\* the step starts an iteration of the file loop (a transcript is requested)
\* or of the chunk loop (a chunk is probed)
StartsIteration ==
  /\ indexing' # indexing
  /\ indexing'.phase \in {"loading", "checking"}

\* the step calls saveChunkToQdrant for the indexer
StartsSave == Len(flushes') > Len(flushes)

C19_Step ==
  (IndexRunning /\ indexing.cancelled) =>
    /\ ~StartsIteration
    /\ StartsSave => indexing.phase = "checking"
    /\ indexing'.phase # "completed"

ProcessingFiles == indexing.phase \in {"loading", "checking", "saving"}

\* what the modal reports, against the flag and the loops
ReportMatchesRun ==
  /\ indexing.phase = "cancelled" => indexing.cancelled
  /\ indexing.phase = "completed" =>
       ~indexing.cancelled /\ indexing.files = <<>> /\ indexing.chunks = <<>>
  /\ "savedChunks" \in DOMAIN indexing =>
       indexing.savedChunks + indexing.skippedChunks <= indexing.totalChunks

C20_Step ==
  /\ ProcessingFiles =>
       /\ indexing'.phase \in {"loading", "checking", "saving",
                                "cancelled", "completed", "errored"}
       /\ indexing'.savedChunks >= indexing.savedChunks
       /\ indexing'.skippedChunks >= indexing.skippedChunks
       /\ indexing.cancelled => indexing'.cancelled
  /\ indexing.phase \in {"cancelled", "completed", "errored"} =>
       indexing'.phase \in {indexing.phase, "listing", "refused"}

CurrentNamespace == getCollectionName(settings, indexing.characterName)

\* the calls of saveChunkToQdrant the indexer made
IndexSaves == {f \in DOMAIN flushes : flushes[f].caller = "indexCharacterChats"}

\* the step in which chunkExists answers for the chunk at the head
C18_Step ==
  (indexing.phase = "checking" /\ last'.op = "indexExists") =>
    LET chunk == Head(indexing.chunks)
    IN IF last'.exists
         THEN /\ StoredWithAny(points, CurrentNamespace, chunk.messageIds)
              /\ indexing'.skippedChunks = indexing.skippedChunks + 1
              /\ indexing'.savedChunks = indexing.savedChunks
              /\ flushes' = flushes
              /\ points' = points
         ELSE /\ indexing'.skippedChunks = indexing.skippedChunks
              /\ Len(flushes') = Len(flushes) + 1
              /\ flushes'[Len(flushes')].chunk = chunk
              /\ flushes'[Len(flushes')].embedRequests = 1

\* what the indexer's calls of saveChunkToQdrant request and write
IndexWritesOnlyCurrent ==
  \A f \in IndexSaves :
    /\ \A k \in DOMAIN flushes[f].upserts :
         /\ flushes[f].upserts[k].collection = CurrentNamespace
         /\ flushes[f].upserts[k].character = indexing.characterName
    /\ Len(flushes[f].upserts) <= 1
    /\ flushes[f].result = "true" =>
         \E p \in points : /\ p.collection = CurrentNamespace
                            /\ p.id = flushes[f].pointId
                            /\ p.payload = ChunkPayload(flushes[f].chunk)

\* C18: when chunkExists answers that a stored point of the current
\* namespace shares an identifier with the chunk, the chunk is counted as
\* skipped and saveChunkToQdrant is not called for it (no embedding request,
\* no write); otherwise saveChunkToQdrant is called for it with one
\* embedding request, and every write of the indexer goes to the current
\* character's namespace, tagged with that character, and to no other.
C18_SkipFoundElseSaveToCurrentOnly ==
  /\ [][C18_Step]_vars
  /\ [](indexing.phase \in {"checking", "saving", "cancelled", "completed"}
          => IndexWritesOnlyCurrent)
  /\ [](settings.usePerCharacterCollections =>
          getCollectionName(settings, Bob) \notin collections)

\* in a group chat, one chunk was skipped and the next one written
C18_Witness ==
  /\ Cardinality(context.characters) > 1
  /\ indexing.phase = "completed"
  /\ indexing.skippedChunks = 1
  /\ \E f \in IndexSaves : flushes[f].result = "true"

\* two runs for the same character, both ended as completed
TwoCompletedRuns ==
  /\ RunNumber(indexing) >= 2
  /\ indexing.phase = "completed"
  /\ indexing.before.phase = "completed"

SecondRunOnlySkips ==
  /\ indexing.savedChunks = 0
  /\ indexing.skippedChunks = indexing.before.savedChunks

EveryChunkWrittenAndProbed ==
  /\ indexing.before.unanswered = 0
  /\ indexing.before.savedChunks = indexing.before.totalChunks
  /\ indexing.unanswered = 0

TurnKept(m) ==
  /\ ~m.is_system
  /\ m.mes >= settings.minMessageLength
  /\ IF m.is_user THEN settings.saveUserMessages ELSE settings.saveCharacterMessages

\* the size a turn adds to its group
TurnSize(m) == m.mes + Len(indexing.characterName) + 4

\* the position (1-based) in the transcript of member k of a chunk
MemberAt(chunk, k) == chunk.messageIds[k][3] + 1

RECURSIVE SizeUpTo(_, _, _)
\* the size of the first j members of a chunk
SizeUpTo(chat, chunk, j) ==
  IF j = 0 THEN 0
  ELSE SizeUpTo(chat, chunk, j - 1) + TurnSize(chat[MemberAt(chunk, j)])

\* the groups are the kept turns, each once, in the order of the transcript
GroupsHoldKeptTurns(chat, chunks) ==
  /\ \A c \in DOMAIN chunks :
       /\ Len(chunks[c].messageIds) > 0
       /\ \A k \in DOMAIN chunks[c].messageIds :
            /\ MemberAt(chunks[c], k) \in DOMAIN chat
            /\ TurnKept(chat[MemberAt(chunks[c], k)])
            /\ k > 1 => MemberAt(chunks[c], k - 1) < MemberAt(chunks[c], k)
       /\ c > 1 => MemberAt(chunks[c - 1], Len(chunks[c - 1].messageIds))
                     < MemberAt(chunks[c], 1)
  /\ \A i \in DOMAIN chat :
       TurnKept(chat[i]) =>
         \E c \in DOMAIN chunks :
           \E k \in DOMAIN chunks[c].messageIds : MemberAt(chunks[c], k) = i

\* a group ends exactly where one of the two closing rules applies
GroupsCloseByTheRules(chat, chunks) ==
  \A c \in DOMAIN chunks :
    LET n == Len(chunks[c].messageIds)
        Full(j) == /\ SizeUpTo(chat, chunks[c], j) >= settings.chunkMinSize
                   /\ j >= 3
        Overflows(j, m) ==
          SizeUpTo(chat, chunks[c], j) + TurnSize(m) > settings.chunkMaxSize
    IN /\ \A j \in 1..(n - 1) :
            /\ ~Full(j)
            /\ ~Overflows(j, chat[MemberAt(chunks[c], j + 1)])
       /\ c < Len(chunks) =>
            \/ Full(n)
            \/ Overflows(n, chat[MemberAt(chunks[c + 1], 1)])

\* the transcript has been loaded and its chunks built
ChunksBuilt == last.op = "indexLoad" /\ last.loaded = "transcript"

\* the chunks createChunksFromChat returned (the run is at its first chunk)
BuiltChunks == indexing.chunks

ProbeAnswered ==
  /\ CollectionProbeAnswer
  /\ last'.exists = (flushes[last'.flush].coll[last'.participant] \in collections)

SearchProbeAnswered ==
  /\ SearchProbeAnswer
  /\ last'.exists = (search.collectionName \in collections)

\* the storage answers every creation request: it creates a namespace that
\* does not exist and answers "already exists" for one that does
CreateAnswered ==
  /\ CreateAnswer
  /\ last'.created =
       (flushes[last'.flush].coll[last'.participant] \notin collections)

SearchCreateAnswered ==
  /\ SearchCreateAnswer
  /\ last'.created = (search.collectionName \notin collections)

\* saveChunkToQdrant for one or two participants and searchMemories run
\* side by side, every request to the storage being answered
NextRace ==
  \/ SaveChunkCall
  \/ EmbeddingAnswer
  \/ ProbeAnswered
  \/ CreateAnswered
  \/ UpsertAnswer
  \/ SearchCall
  \/ SearchProbeAnswered
  \/ SearchCreateAnswered
  \/ SearchEmbeddingAnswer
  \/ SearchAnswer

SpecRace == InitSave /\ [][NextRace]_vars

\* the step in which a creation request is answered "already exists"
C21_Step ==
  /\ (last'.op = "create" /\ ~last'.created) =>
       flushes'[last'.flush].part[last'.participant] = "writing"
  /\ (last'.op = "searchCreate" /\ ~last'.created) =>
       search'.phase = "embedding"

\* C21: a caller of ensureCollection whose creation request is answered
\* "already exists" goes on as with a ready namespace: the participant's
\* write is issued, the search goes on to its embedding.
C21_LoserOfCreationRaceGoesOn == [][C21_Step]_vars

\* --------------------------------------------- the embedding model changes
\* the models of the select box and a model typed into the custom field
ModelChoices ==
  {"text-embedding-3-large", "text-embedding-3-small", "all-MiniLM-L6-v2"}

\* the user picks another embedding model
ChangeModel ==
  \E model \in ModelChoices \ {settings.embeddingModel} :
    /\ switches < MaxSwitches
    /\ switches' = switches + 1
    /\ settings' = [settings EXCEPT !.embeddingModel = model]
    /\ last' = [op |-> "changeModel"]
    /\ UNCHANGED retrievalVars
    /\ UNCHANGED <<context, now, messageBuffer, chunkTimer, timers, flushes,
                   collections, dimensions, points, offered>>

NextDims ==
  \/ ChangeModel
  \/ SaveChunkCall
  \/ EmbeddingAnswer
  \/ CollectionProbeAnswer
  \/ CreateAnswer
  \/ UpsertAnswer

SpecDims == InitSave /\ [][NextDims]_vars

MaxRenderTurns == 3

\* the texts of the turns: one line, and two lines
TurnTexts ==
  { <<"h", "e", "l", "l", "o">>, <<"a", "b", "\n", "c", "d">> }

Whitespace == {" ", "\n"}

RECURSIVE TrimStart(_)
TrimStart(text) ==
  IF text # <<>> /\ Head(text) \in Whitespace THEN TrimStart(Tail(text)) ELSE text

RECURSIVE TrimEnd(_)
TrimEnd(text) ==
  IF text # <<>> /\ text[Len(text)] \in Whitespace
    THEN TrimEnd(SubSeq(text, 1, Len(text) - 1))
    ELSE text

\* String.prototype.trim
Trim(text) == TrimEnd(TrimStart(text))

RECURSIVE LinesText(_, _)
\* chunkText: the lines `${speaker}: ${msg.text}\n` from line i on
LinesText(lines, i) ==
  IF i > Len(lines) THEN <<>>
  ELSE lines[i].speaker \o <<":", " ">> \o lines[i].text \o <<"\n">>
         \o LinesText(lines, i + 1)

\* finalText: the trimmed lines behind the date prefix `[YYYY-MM-DD]\n`
ChunkText(text) ==
  (IF text.dated THEN <<"[YYYY-MM-DD]", "\n">> ELSE <<>>)
    \o Trim(LinesText(text.lines, 1))

RECURSIVE Join(_, _)
\* speakers.join(", ") from speaker i on
Join(speakers, i) ==
  IF i > Len(speakers) THEN <<>>
  ELSE speakers[i] \o (IF i < Len(speakers) THEN <<",", " ">> ELSE <<>>)
         \o Join(speakers, i + 1)

\* variant: the text is put into the bullet as it is stored
Flatten_KeepingNewlines(text) == text

\* text.replace(/\n/g, " ")
Flatten(text) == [i \in DOMAIN text |-> IF text[i] = "\n" THEN " " ELSE text[i]]

\* the bullet formatMemories renders for a chunk, the score given in percent
RenderMemory(memory) ==
  <<"* ", "Conversation (">> \o Join(memory.payload.speakers, 1)
    \o <<"): \"">> \o Flatten(ChunkText(memory.payload.text))
    \o <<"\" (score: ", memory.score, "%)", "\n", "\n">>

\* formatMemories of one memory: the header and the bullet
RenderMemories(memory) ==
  <<"\n", "[Past chat memories]", "\n", "\n">> \o RenderMemory(memory)

\* the turns the buffer holds: of the user and of two characters
RenderTurns ==
  {[text |-> t, characterName |-> c, isUser |-> FALSE, messageId |-> <<c, 1, 1>>] :
     t \in TurnTexts, c \in {Alice, Bob}}
  \cup {[text |-> t, characterName |-> Alice, isUser |-> TRUE,
         messageId |-> <<Alice, 1, 1>>] : t \in TurnTexts}

\* the buffers of one to MaxRenderTurns turns
RenderBuffers ==
  UNION {{[i \in 1..n |-> [f[i] EXCEPT !.messageId = <<f[i].characterName, i, i>>]] :
            f \in [1..n -> RenderTurns]} : n \in 1..MaxRenderTurns}

InitRender ==
  /\ settings = SavedSettings
  /\ context = [name2 |-> Alice, characters |-> {Alice, Bob}, chat |-> <<>>]
  /\ now = 2
  /\ messageBuffer \in RenderBuffers
  /\ chunkTimer = 0
  /\ timers = {}
  /\ flushes = <<>>
  /\ collections = {}
  /\ dimensions = CreatedWith(collections, settings)
  /\ points = {}
  /\ offered = {}
  /\ switches = 0
  /\ last = [op |-> "init"]
  /\ search = [phase |-> "idle"]
  /\ indexing = [phase |-> "idle"]

\* the buffer is made a chunk, the chunk a payload, and the payload, found
\* by a search with the score given, is rendered
RenderCall ==
  \E score \in {"30", "87"} :
    /\ last.op = "init"
    /\ LET chunk == createChunkFromBuffer(messageBuffer, now)
           memory == [payload |-> ChunkPayload(chunk), score |-> score]
       IN last' = [op |-> "formatMemories", turns |-> messageBuffer,
                   chunk |-> chunk, memory |-> memory,
                   formatted |-> RenderMemories(memory)]
    /\ UNCHANGED retrievalVars
    /\ UNCHANGED <<settings, context, now, messageBuffer, chunkTimer, timers,
                   flushes, collections, dimensions, points, offered, switches>>

\* the send_date values of the turns of a transcript that is replayed
ReplayDates == {Num(1), Num(3), Str("2024-01-04"), Undefined}

\* the turns of the buffer as the entries of a transcript of the character
\* selected, and the chunk createChunksFromChat makes of them when no rule
\* closes a chunk before the last
ReplayCall ==
  \E dates \in [DOMAIN messageBuffer -> ReplayDates] :
    /\ last.op = "init"
    /\ LET transcript ==
             [i \in DOMAIN messageBuffer |->
                [name |-> context.name2, is_user |-> messageBuffer[i].isUser,
                 is_system |-> FALSE, mes |-> messageBuffer[i].text,
                 send_date |-> dates[i], memory |-> FALSE]]
           messages == [i \in DOMAIN transcript |->
                          MessageObj(transcript, i, context.name2, now)]
       IN last' = [op |-> "createChunkFromMessages", turns |-> messages,
                   chunk |-> createChunkFromMessages(messages, now)]
    /\ UNCHANGED retrievalVars
    /\ UNCHANGED <<settings, context, now, messageBuffer, chunkTimer, timers,
                   flushes, collections, dimensions, points, offered, switches>>

NextRender ==
  \/ RenderCall
  \/ ReplayCall

SpecRender == InitRender /\ [][NextRender]_vars

\* the number of places at which a pattern stands in a text
Occurrences(pattern, text) ==
  Cardinality({i \in 1..(Len(text) - Len(pattern) + 1) :
                 SubSeq(text, i, i + Len(pattern) - 1) = pattern})

\* the labels of the turns the chunk was built from
LabelsOf(buf) == {SpeakerLabel(buf[i]) : i \in DOMAIN buf}

\* the chunk's text with a space for every newline
SpacedText(memory) ==
  LET text == ChunkText(memory.payload.text)
  IN [i \in DOMAIN text |-> IF text[i] = "\n" THEN " " ELSE text[i]]

\* what stands between `Conversation (` and `): "`
SpeakerPart(formatted) ==
  LET from == CHOOSE i \in DOMAIN formatted : formatted[i] = "Conversation ("
      to == CHOOSE i \in DOMAIN formatted :
              /\ formatted[i] = "): \""
              /\ \A j \in 1..(i - 1) : formatted[j] # "): \""
  IN SubSeq(formatted, from + 1, to - 1)

Rendered == last.op = "formatMemories"

\* C23 as stated: the rendered text holds each distinct speaker label of
\* the chunk exactly once, and the chunk's text with a space for every
\* newline.
C23_EachLabelOnceInRenderedText ==
  Rendered =>
    /\ \A label \in LabelsOf(messageBuffer) :
         Occurrences(label, last.formatted) = 1
    /\ Occurrences(SpacedText(last.memory), last.formatted) >= 1

\* C23, amended: the speaker list of the bullet, `Conversation (...)`, holds
\* each distinct speaker label of the chunk exactly once and nothing else but
\* the separators; the rendered text holds the chunk's text with a space for
\* every newline, in which each label stands again once per turn.
C23_EachLabelOnceInSpeakerList ==
  Rendered =>
    /\ \A label \in LabelsOf(messageBuffer) :
         Occurrences(label, SpeakerPart(last.formatted)) = 1
    /\ Occurrences(SpacedText(last.memory), last.formatted) = 1
    /\ \A label \in LabelsOf(messageBuffer) :
         Occurrences(label, SpacedText(last.memory))
           = Cardinality({i \in DOMAIN messageBuffer :
                           SpeakerLabel(messageBuffer[i]) = label})

\* three turns of two speakers, one of them with a text of two lines
C23_Witness ==
  /\ Rendered
  /\ Len(messageBuffer) = 3
  /\ Cardinality(LabelsOf(messageBuffer)) = 2
  /\ \E i \in DOMAIN messageBuffer : "\n" \in {messageBuffer[i].text[k] :
                                         k \in DOMAIN messageBuffer[i].text}

\* a chunk was built, of the buffer or of the turns of a transcript
Built == last.op \in {"formatMemories", "createChunkFromMessages"}

\* C24: a chunk built from a non-empty sequence of turns has one line per
\* turn in the order of the turns, labelled You for a turn of the user and
\* with the character's name otherwise; its messageIds are the turns'
\* identifiers in that order and not empty, its messageCount is the number of
\* turns, and its speakers are the distinct labels, each once.
C24_ChunkMirrorsItsTurns ==
  Built =>
    LET turns == last.turns
        chunk == last.chunk
        label(i) == IF turns[i].isUser THEN You ELSE turns[i].characterName
    IN /\ Len(turns) > 0
       /\ DOMAIN chunk.lines = DOMAIN turns
       /\ \A i \in DOMAIN turns :
            chunk.lines[i] = [speaker |-> label(i), text |-> turns[i].text]
       /\ chunk.messageIds = [i \in DOMAIN turns |-> turns[i].messageId]
       /\ Len(chunk.messageIds) > 0
       /\ chunk.messageCount = Len(turns)
       /\ {chunk.speakers[k] : k \in DOMAIN chunk.speakers}
            = {label(i) : i \in DOMAIN turns}
       /\ \A j, k \in DOMAIN chunk.speakers :
            chunk.speakers[j] = chunk.speakers[k] => j = k

\* a chunk of three replayed turns, of the user and of the character
C24_Witness ==
  /\ last.op = "createChunkFromMessages"
  /\ Len(last.turns) = 3
  /\ last.turns[1].isUser /\ ~last.turns[2].isUser /\ last.turns[3].isUser
  /\ Len(last.chunk.speakers) = 2

\* ------------------------------------------------- getCollectionName: claims
MaxNameLen == 3
MaxRouteCalls == 2

\* the characters of the names: a capital, a small letter, a blank, the two
\* signs the sanitiser keeps and one it does not
NameChars == {"A", "l", " ", "_", "-", "!"}

RouteNames == UNION {[1..n -> NameChars] : n \in 0..MaxNameLen}

InitRoute ==
  /\ settings \in {SavedSettings, SharedSettings}
  /\ context \in {[name2 |-> n, characters |-> {n}, chat |-> <<>>] :
                    n \in RouteNames}
  /\ now = 0
  /\ messageBuffer = <<>>
  /\ chunkTimer = 0
  /\ timers = {}
  /\ flushes = <<>>
  /\ collections = {}
  /\ dimensions = CreatedWith(collections, settings)
  /\ points = {}
  /\ offered = {}
  /\ switches = 0
  /\ last = [op |-> "init"]
  /\ search = [phase |-> "idle"]
  /\ indexing = [phase |-> "idle"]

\* getCollectionName is called for the character selected; history: the
\* names it returned so far
RouteCall ==
  LET before == IF last.op = "getCollectionName" THEN last.results ELSE <<>>
  IN /\ Len(before) < MaxRouteCalls
     /\ last' = [op |-> "getCollectionName", characterName |-> context.name2,
                 results |-> Append(before,
                               getCollectionName(settings, context.name2))]
     /\ UNCHANGED retrievalVars
     /\ UNCHANGED <<settings, context, now, messageBuffer, chunkTimer, timers,
                    flushes, collections, dimensions, points, offered, switches>>

SpecRoute == InitRoute /\ [][RouteCall]_vars

\* the characters of [a-z0-9_-]
RouteClass ==
  {"a", "b", "c", "d", "e", "f", "g", "h", "i", "j", "k", "l", "m", "n", "o",
   "p", "q", "r", "s", "t", "u", "v", "w", "x", "y", "z", "0", "1", "2", "3",
   "4", "5", "6", "7", "8", "9", "_", "-"}

\* C25: the calls of getCollectionName with one name under one setting
\* return one value; it is the base namespace when
\* usePerCharacterCollections is off, and otherwise the base, `_`, and a
\* part with characters of [a-z0-9_-] only, without two underscores in a
\* row and without an underscore in front or at the end.
C25_RouteIsDeterministicAndSanitized ==
  last.op = "getCollectionName" =>
    \A k \in DOMAIN last.results :
      LET out == last.results[k]
          base == settings.collectionName
          part == SubSeq(out, Len(base) + 2, Len(out))
      IN /\ out = last.results[1]
         /\ ~settings.usePerCharacterCollections => out = base
         /\ settings.usePerCharacterCollections =>
              /\ Len(out) >= Len(base) + 1
              /\ SubSeq(out, 1, Len(base) + 1) = base \o <<"_">>
              /\ \A i \in DOMAIN part : part[i] \in RouteClass
              /\ \A i \in 1..(Len(part) - 1) :
                   ~(part[i] = "_" /\ part[i + 1] = "_")
              /\ Len(part) > 0 => part[1] # "_" /\ part[Len(part)] # "_"

\* the second call for `A !`: lowered, two signs replaced, the underscores
\* made one and that one removed
C25_Witness ==
  /\ last.op = "getCollectionName"
  /\ Len(last.results) = 2
  /\ settings.usePerCharacterCollections
  /\ last.characterName = <<"A", " ", "!">>
  /\ last.results[2] = <<"m", "e", "m", "_", "a">>

\* ------------------------------------------------- normalizeSendDate: claims
\* the values a send_date can hold: those of the host's messages, a Date
\* object and null
DateInputs == SendDates \cup {DateObject(4), [type |-> "null"]}

InitDates ==
  /\ settings = SavedSettings
  /\ context \in {[name2 |-> Alice, characters |-> {Alice}, chat |-> c] :
                    c \in UNION {[1..n -> {[DatedTurn EXCEPT !.send_date = d] :
                                             d \in DateInputs}] : n \in 1..MaxChat}}
  /\ now = 0
  /\ messageBuffer = <<>>
  /\ chunkTimer = 0
  /\ timers = {}
  /\ flushes = <<>>
  /\ collections = {}
  /\ dimensions = CreatedWith(collections, settings)
  /\ points = {}
  /\ offered = {}
  /\ switches = 0
  /\ last = [op |-> "init"]
  /\ search = [phase |-> "idle"]
  /\ indexing = [phase |-> "idle"]

\* normalizeSendDate(message.send_date) for a message of the chat
NormalizeCall ==
  \E i \in DOMAIN context.chat :
    /\ last' = [op |-> "normalizeSendDate", sendDate |-> context.chat[i].send_date,
                result |-> normalizeSendDate(context.chat[i].send_date)]
    /\ UNCHANGED retrievalVars
    /\ UNCHANGED <<settings, context, now, messageBuffer, chunkTimer, timers,
                   flushes, collections, dimensions, points, offered, switches>>

SpecDates == InitDates /\ [][NormalizeCall]_vars

\* the strings of the model that are numbers, and the strings that are ISO
\* dates, with their values
NumericStrings == "3" :> 3
IsoDateStrings == "2024-01-04" :> 4

\* C26: normalizeSendDate returns the value of a number and of a numeric
\* string, the epoch time of a Date object and of an ISO date string, and
\* null for every other input, so for every string that is neither a number
\* nor a date.
C26_NumberThenDateElseNull ==
  last.op = "normalizeSendDate" =>
    LET d == last.sendDate
    IN CASE d.type = "number" -> last.result = d.v
         [] d.type = "date" -> last.result = d.v
         [] d.type = "string" /\ d.v \in DOMAIN NumericStrings ->
              last.result = NumericStrings[d.v]
         [] d.type = "string" /\ d.v \in DOMAIN IsoDateStrings ->
              last.result = IsoDateStrings[d.v]
         [] OTHER -> last.result = NullTime

\* ------------------------------------- live buffer and replay: claims
\* a message arrives when no save is under way
QuietHostMessage ==
  /\ \A f \in DOMAIN flushes : flushes[f].phase = "returned"
  /\ HostMessage

\* the live buffer with flushes by size only: no timer expires, and each
\* flush has returned before the next message
NextSized ==
  \/ QuietHostMessage
  \/ EmbeddingAnswer
  \/ CollectionProbeAnswer
  \/ CreateAnswer
  \/ UpsertAnswer

SpecSized == Init /\ [][NextSized]_vars

\* the groups the live buffer closed, as the positions of their turns in
\* the chat
LiveGroups ==
  [f \in DOMAIN flushes |->
     {flushes[f].chunk.messageIds[k][3] :
        k \in DOMAIN flushes[f].chunk.messageIds}]

\* the groups createChunksFromChat makes of the same chat, as positions
ReplayGroups ==
  LET chunks == createChunksFromChat(context.chat, context.name2, settings, now)
  IN [c \in DOMAIN chunks |->
        {chunks[c].messageIds[k][3] + 1 : k \in DOMAIN chunks[c].messageIds}]

\* C27: with flushes by size only, each group of turns the live buffer
\* closes is the group createChunksFromChat makes at that place of the
\* same turns.
C27_ReplayGroupsAreLiveGroups ==
  \A f \in DOMAIN LiveGroups :
    /\ f \in DOMAIN ReplayGroups
    /\ ReplayGroups[f] = LiveGroups[f]

\* ------------------------------------------------------- the timer: claims
\* at most one timeout is armed, and it is the one armed last
C28_AtMostOneArmed ==
  /\ Cardinality(timers) <= 1
  /\ \A t \in timers : t.id = chunkTimer

\* an accepted addTurn leaves none of the timeouts armed before it, and a
\* timeout that expires is the one armed last
C28_Step ==
  /\ AcceptedAdd => \A t \in timers : t \notin timers'
  /\ last'.op = "timer" =>
       /\ last'.timer \in timers
       /\ last'.timer.id = chunkTimer

\* C28: in every reachable state at most one flush timer is armed; each
\* accepted addTurn cancels the timer armed before, whether it then starts a
\* flush or arms a new timer, so a timer that was superseded never expires
\* into a flush.
C28_OneTimerAndSupersededNeverFires ==
  [](C28_AtMostOneArmed) /\ [][C28_Step]_vars

\* a second turn was accepted: the timer of the first is gone and the
\* second's is the only one armed
C28_Witness ==
  /\ last.op = "onMessageSent" /\ last.called
  /\ Len(messageBuffer) = 2
  /\ chunkTimer = 2
  /\ timers = {[id |-> 2, delay |-> 5000]}

\* ------------------------------------------- a pass without a query: claims
\* the chat has no turn of the user, or the last one has no text
NoQuery(chat) ==
  LET users == {i \in DOMAIN chat : chat[i].is_user}
  IN \/ users = {}
     \/ \E i \in users : (\A j \in users : j <= i) /\ chat[i].mes = 0

\* the turns of a chat that are not injected memory entries, in their order
RealTurns(chat) == SelectSeq(chat, LAMBDA msg : ~msg.memory)

\* C29: a pass over a chat without a user turn, or whose most recent user
\* turn has empty text, sends no request and inserts nothing: it ends in
\* its own step, and the chat it leaves is the chat it found or that chat
\* without its injected memory entries.
C29_Step ==
  (last'.op = "interceptor" /\ NoQuery(context.chat)) =>
    /\ search'.phase = "done"
    /\ search'.result = {}
    /\ context'.chat \in {context.chat, RealTurns(context.chat)}
    /\ UNCHANGED <<collections, dimensions, points, flushes>>

C29_NoUserTurnNoRetrieval == [][C29_Step]_vars

\* a pass over a character's turn and a memory entry: the entry is gone,
\* nothing was asked
C29_Witness ==
  /\ last.op = "interceptor"
  /\ search.phase = "done"
  /\ search.outcome = "noquery"
  /\ search.removed = 1
  /\ Len(context.chat) >= 1
  /\ NoQuery(context.chat)

\* ------------------------------------------- the chunk's timestamp: claims
\* two timestamps are one value of one type
SameTimestamp(a, b) == a.type = b.type /\ a.v = b.v

\* C30: the timestamp of a chunk of the live buffer is the time at which it
\* was built; the timestamp of a chunk of a replay is the least of its
\* turns' timestamps: it is the timestamp of one of them, and no turn's is
\* earlier.
C30_AssemblyTimeOrOldestTurn ==
  /\ last.op = "formatMemories" => SameTimestamp(last.chunk.timestamp, Num(now))
  /\ last.op = "createChunkFromMessages" =>
       /\ \E i \in DOMAIN last.turns :
            SameTimestamp(last.chunk.timestamp, last.turns[i].timestamp)
       /\ \A j \in DOMAIN last.turns :
            normalizeSendDate(last.turns[j].timestamp)
              >= normalizeSendDate(last.chunk.timestamp)

\* ------------------------------------------- identifiers of a replay: claims
\* the places (chunk, member) of the chunks built
BuiltPlaces ==
  UNION {{<<c, k>> : k \in DOMAIN BuiltChunks[c].messageIds} :
           c \in DOMAIN BuiltChunks}

\* C31: within one transcript the identifiers createChunksFromChat gives the
\* turns it keeps are pairwise distinct, also for turns with one send_date:
\* the last part of an identifier is the turn's position in the transcript
\* as loaded, skipped entries counted.
C31_ReplayIdsDistinctByOriginalIndex ==
  ChunksBuilt =>
    /\ \A p, q \in BuiltPlaces :
         BuiltChunks[p[1]].messageIds[p[2]] = BuiltChunks[q[1]].messageIds[q[2]]
           => p = q
    /\ \A p \in BuiltPlaces :
         LET id == BuiltChunks[p[1]].messageIds[p[2]]
         IN /\ id[3] + 1 \in DOMAIN context.chat
            /\ TurnKept(context.chat[id[3] + 1])
            /\ id[2] = context.chat[id[3] + 1].send_date
            /\ id[1] = indexing.characterName

\* a skipped entry in front of two kept turns with one send_date
C31_Witness ==
  /\ ChunksBuilt
  /\ Len(context.chat) = 3
  /\ ~TurnKept(context.chat[1])
  /\ TurnKept(context.chat[2]) /\ TurnKept(context.chat[3])
  /\ context.chat[2].send_date = context.chat[3].send_date
  /\ Cardinality(BuiltPlaces) = 2

\* --------------------------------- a live chat that is indexed later: claims
\* the live buffer stores chunks of the chat, and one run of the indexer
\* replays the same chat
NextRelive ==
  \/ HostMessage
  \/ TimerFires
  \/ EmbeddingAnswer
  \/ CollectionProbeAnswer
  \/ CreateAnswer
  \/ UpsertAnswer
  \/ FirstIndexCall
  \/ IndexListAnswer
  \/ IndexProbeAnswer
  \/ IndexCreateAnswer
  \/ IndexLoadAnswer
  \/ IndexExistsAnswer

SpecRelive == InitRecency /\ [][NextRelive]_vars

\* the identifier onMessageSent gave the turn at position p (1-based) of
\* the chat when it arrived, and the one createChunksFromChat gives it
LiveIdOf(p) == LiveMessageId(context.name2, SubSeq(context.chat, 1, p))
ReplayIdOf(p) == MessageObj(context.chat, p, context.name2, now).messageId

\* the two paths give a turn one identifier
C32_IdsAgree ==
  \A p \in DOMAIN context.chat : LiveIdOf(p) = ReplayIdOf(p)

\* the points of the namespace the live buffer stored
LivePoints(collectionName) ==
  {p \in points : /\ p.collection = collectionName
                  /\ p.id \in DOMAIN flushes
                  /\ flushes[p.id].caller = "processMessageBuffer"}

\* the positions in the chat of the turns of a live chunk, of a replayed one
LivePositions(payload) ==
  {payload.messageIds[k][3] : k \in DOMAIN payload.messageIds}
ReplayPositions(chunk) ==
  {chunk.messageIds[k][3] + 1 : k \in DOMAIN chunk.messageIds}

\* chunkExists is answered for a chunk of the replay with a turn that the
\* live buffer stored: the chunk is skipped
C32_Step ==
  LET chunk == Head(indexing.chunks)
      collectionName == getCollectionName(settings, indexing.characterName)
  IN (/\ indexing.phase = "checking"
      /\ last'.op = "indexExists"
      /\ indexing'.unanswered = indexing.unanswered
      /\ \E p \in LivePoints(collectionName) :
           LivePositions(p.payload) \cap ReplayPositions(chunk) # {})
       => /\ last'.exists
          /\ flushes' = flushes

\* C32: the live path and the reindexer give the same turn of a chat the
\* same identifier, so that a chunk the live buffer stored is found by
\* chunkExists and skipped when the chat is reindexed.
C32_LiveChunkRecognisedByReplay == [](C32_IdsAgree) /\ [][C32_Step]_vars

\* ------------------------------------- one chunk, several participants: claims
\* C33: after a call of saveChunkToQdrant with two participants or more in
\* which every upsert succeeded, the storage holds for each participant a
\* point of the chunk in that participant's namespace, tagged with that
\* participant's name, also when the participants share one namespace.
C33_EachParticipantHoldsThePoint ==
  \A f \in DOMAIN flushes :
    LET rec == flushes[f]
    IN (/\ rec.phase = "returned"
        /\ Len(rec.participants) >= 2
        /\ \A i \in DOMAIN rec.part : rec.part[i] = "saved")
         => \A i \in DOMAIN rec.participants :
              \E p \in points :
                /\ p.collection = getCollectionName(settings, rec.participants[i])
                /\ p.character = rec.participants[i]
                /\ p.payload = ChunkPayload(rec.chunk)

\* ------------------------------------ the buffer and a change of chat: claims
\* the user has two characters, and the chat of the first is open
InitSwitch ==
  /\ settings = SavedSettings
  /\ context = [name2 |-> Alice, characters |-> {Alice, Bob}, chat |-> <<>>]
  /\ now = 0
  /\ messageBuffer = <<>>
  /\ chunkTimer = 0
  /\ timers = {}
  /\ flushes = <<>>
  /\ collections = {}
  /\ dimensions = CreatedWith(collections, settings)
  /\ points = {}
  /\ offered = {}
  /\ switches = 0
  /\ last = [op |-> "init"]
  /\ search = [phase |-> "idle"]
  /\ indexing = [phase |-> "idle"]

SpecSwitch == InitSwitch /\ [][Next]_vars

\* the entity whose chat was open when the turn with this identifier arrived
OwnerOf(messageId) == messageId[1]

\* the entities of the conversation of an owner, as far as the state tells:
\* the owner, and the participants of the open chat when it is the owner's
EntitiesOf(owner, ctx) ==
  {owner} \cup (IF ctx.name2 = owner
                  THEN {getChatParticipants(ctx)[i] :
                          i \in DOMAIN getChatParticipants(ctx)}
                  ELSE {})

\* a flush of the buffer starts: each participant it writes for is an entity
\* of the conversation of each turn of the chunk
C34_Step ==
  Len(flushes') > Len(flushes) =>
    LET rec == flushes'[Len(flushes')]
    IN \A i \in DOMAIN rec.participants, k \in DOMAIN rec.chunk.messageIds :
         rec.participants[i] \in EntitiesOf(OwnerOf(rec.chunk.messageIds[k]), context')

\* C34: a chunk is written only to namespaces of entities that were the
\* active entity or a participant of the conversation in which all its
\* turns were spoken: turns buffered under one entity are not flushed into
\* the namespace of another after the open chat has changed.
C34_ChunkStaysInItsConversation == [][C34_Step]_vars

\* --------------------------------------- the polling fallback: claims
\* the period of the interval of the fallback
PollDelay == 2000

\* the handle of the interval; the handles of the timeouts are positive
PollId == 0 - 1

\* the interval armed when the host has no eventSource, with the
\* lastChatLength of its closure
PollInterval(lastChatLength) ==
  [id |-> PollId, delay |-> PollDelay, lastChatLength |-> lastChatLength]

InitPoll ==
  /\ settings = SavedSettings
  /\ context = [name2 |-> Alice, characters |-> {Alice, Bob}, chat |-> <<>>]
  /\ now = 0
  /\ messageBuffer = <<>>
  /\ chunkTimer = 0
  /\ timers = {PollInterval(0)}
  /\ flushes = <<>>
  /\ collections = {}
  /\ dimensions = CreatedWith(collections, settings)
  /\ points = {}
  /\ offered = {}
  /\ switches = 0
  /\ last = [op |-> "init"]
  /\ search = [phase |-> "idle"]
  /\ indexing = [phase |-> "idle"]

\* bufferMessage while the timeouts and intervals in armed are armed
bufferMessageAmong(armed, text, characterName, isUser, messageId, ctx, t) ==
  IF Rejects(settings, text, isUser)
    THEN /\ timers' = armed
         /\ UNCHANGED <<messageBuffer, chunkTimer, flushes, offered>>
    ELSE LET buf == Append(messageBuffer,
                      [text |-> text, characterName |-> characterName,
                       isUser |-> isUser, messageId |-> messageId])
             decision == FlushDecision(BufferSize(buf), settings)
             cleared == ClearTimeout(armed, chunkTimer)
         IN /\ offered' = offered \cup {messageId}
            /\ IF decision = "now"
                 THEN LET r == processMessageBuffer(buf, ctx, flushes, t)
                      IN /\ messageBuffer' = r.messageBuffer
                         /\ flushes' = r.flushes
                         /\ timers' = cleared
                         /\ chunkTimer' = chunkTimer
                 ELSE /\ messageBuffer' = buf
                      /\ flushes' = flushes
                      /\ timers' = cleared \cup
                           {[id |-> chunkTimer + 1, delay |-> TimerDelay(decision, settings)]}
                      /\ chunkTimer' = chunkTimer + 1

\* the host appends a message to the live chat; no event reaches the
\* extension
HostAppends ==
  \E text \in TextLengths, isUser \in BOOLEAN, speaker \in context.characters :
    LET msg == [name |-> IF isUser THEN You ELSE speaker, is_user |-> isUser,
                is_system |-> FALSE, mes |-> text, send_date |-> Num(now + 1),
                memory |-> FALSE]
    IN /\ now < MaxTurns
       /\ isUser => speaker = CHOOSE c \in context.characters : TRUE
       /\ now' = now + 1
       /\ context' = [context EXCEPT !.chat = Append(@, msg)]
       /\ last' = [op |-> "append"]
       /\ UNCHANGED retrievalVars
       /\ UNCHANGED <<settings, messageBuffer, chunkTimer, timers, flushes,
                      collections, dimensions, points, offered, switches>>

\* the interval expires: when the chat is longer than lastChatLength, the
\* callback records its length and calls onMessageSent, which offers the
\* last message of the chat
PollFires ==
  \E poll \in {t \in timers : t.id = PollId} :
    LET chat == context.chat
        grown == settings.autoSaveMemories /\ Len(chat) > poll.lastChatLength
        armed == (timers \ {poll}) \cup {PollInterval(Len(chat))}
        called == /\ grown
                  /\ context.name2 # NoName
                  /\ chat[Len(chat)].mes > 0
    IN /\ IF called
            THEN bufferMessageAmong(armed, chat[Len(chat)].mes, context.name2,
                                    chat[Len(chat)].is_user,
                                    LiveMessageId(context.name2, chat), context, now)
            ELSE /\ timers' = IF grown THEN armed ELSE timers
                 /\ UNCHANGED <<messageBuffer, chunkTimer, flushes, offered>>
       /\ Len(flushes') <= MaxFlushes
       /\ last' = [op |-> "poll", grown |-> grown, called |-> called]
       /\ UNCHANGED retrievalVars
       /\ UNCHANGED <<settings, context, now, collections, dimensions, points,
                      switches>>

\* a timeout of the Buffer expires; the interval stays armed
FlushTimerFires == TimerFires /\ last'.timer.id # PollId

NextPoll ==
  \/ HostAppends
  \/ PollFires
  \/ FlushTimerFires
  \/ EmbeddingAnswer
  \/ CollectionProbeAnswer
  \/ CreateAnswer
  \/ UpsertAnswer
  \/ SwitchChat

SpecPoll == InitPoll /\ [][NextPoll]_vars

\* the places of the live chat whose turn addTurn accepts
AcceptablePlaces ==
  {p \in DOMAIN context.chat :
     ~SpecRejects(settings, context.chat[p].mes, context.chat[p].is_user)}

\* C35: with the polling fallback no appended turn is missed: once the poll
\* has run, every turn of the live chat that addTurn accepts has been offered
\* to it, also when several turns arrived between two polls or the chat was
\* replaced by a shorter one.
C35_PollOffersEveryAppendedTurn ==
  (last.op = "poll" /\ context.name2 # NoName) =>
    \A p \in AcceptablePlaces :
      LiveMessageId(context.name2, SubSeq(context.chat, 1, p)) \in offered

\* ------------------------------------------ overlapping passes: claims
\* a pass of the interceptor is waiting for an answer
PassAwaits(pass) == pass.phase \in {"probing", "creating", "embedding", "searching"}

\* the pass the host started while the pass of `search` was waiting has not
\* returned yet
SecondInFlight == "second" \in DOMAIN search /\ PassAwaits(search.second)

\* The host calls qdrantMemoryInterceptor on the live chat while an earlier
\* pass is waiting inside searchMemories: the new pass runs up to the first
\* request of searchMemories, or to its return.
OverlapCall ==
  LET chat == removeExistingMemoryEntries(context.chat)
      lastUserMsg == LastUserMsg(chat)
  IN /\ "caller" \in DOMAIN search
     /\ PassAwaits(search)
     /\ "second" \notin DOMAIN search
     /\ IF ~settings.enabled \/ context.name2 = NoName
          THEN /\ search' = search @@ [second |-> [phase |-> "done", outcome |-> "skipped"]]
               /\ context' = context
          ELSE /\ context' = [context EXCEPT !.chat = chat]
               /\ search' = search @@
                    [second |->
                       IF lastUserMsg = Null \/ lastUserMsg.mes = 0
                         THEN [phase |-> "done", outcome |-> "noquery"]
                         ELSE [phase |-> "probing",
                               characterName |-> context.name2,
                               collectionName |->
                                 getCollectionName(settings, context.name2)]]
     /\ last' = [op |-> "interceptor", pass |-> search.pass + 1]
     /\ UNCHANGED indexing
     /\ UNCHANGED <<settings, now, messageBuffer, chunkTimer, timers, flushes,
                    collections, dimensions, points, offered, switches>>

\* searchMemories of the later pass returns and the pass runs on
SecondReturns(result, chat) ==
  /\ search' = [search EXCEPT !.second =
                  [phase |-> "done", outcome |-> PassOutcome(result)]]
  /\ context' = [context EXCEPT !.chat =
                   InterceptorResumes(chat, result, settings, now)]

SecondProbeAnswer ==
  \E reachable \in BOOLEAN :
    LET exists == reachable /\ search.second.collectionName \in collections
    IN /\ "second" \in DOMAIN search
       /\ search.second.phase = "probing"
       /\ search' = [search EXCEPT !.second.phase =
                       IF exists THEN "embedding" ELSE "creating"]
       /\ last' = [op |-> "searchProbe", exists |-> exists]
       /\ UNCHANGED indexing
       /\ UNCHANGED <<settings, context, now, messageBuffer, chunkTimer,
                      timers, flushes, collections, dimensions, points,
                      offered, switches>>

SecondCreateAnswer ==
  \E reachable \in BOOLEAN :
    LET created == reachable /\ search.second.collectionName \notin collections
    IN /\ "second" \in DOMAIN search
       /\ search.second.phase = "creating"
       /\ collections' = IF created
                           THEN collections \cup {search.second.collectionName}
                           ELSE collections
       /\ dimensions' = IF created
                          THEN Created(dimensions, search.second.collectionName, settings)
                          ELSE dimensions
       /\ IF created
            THEN /\ search' = [search EXCEPT !.second.phase = "embedding"]
                 /\ context' = context
            ELSE SecondReturns({}, context.chat)
       /\ last' = [op |-> "searchCreate", created |-> created]
       /\ UNCHANGED indexing
       /\ UNCHANGED <<settings, now, messageBuffer, chunkTimer, timers,
                      flushes, points, offered, switches>>

SecondEmbeddingAnswer ==
  \E outcome \in {"vector", "null", "rejected"} :
    /\ "second" \in DOMAIN search
    /\ search.second.phase = "embedding"
    /\ IF outcome = "vector"
         THEN LET chat == removeExistingMemoryEntries(context.chat)
                  timestampThreshold == TimestampThreshold(chat, settings)
              IN /\ context' = [context EXCEPT !.chat = chat]
                 /\ search' = [search EXCEPT !.second =
                      [phase |-> "searching",
                       characterName |-> search.second.characterName,
                       collectionName |-> search.second.collectionName,
                       searchPayload |->
                         SearchPayload(timestampThreshold, settings,
                                       search.second.characterName)]]
         ELSE SecondReturns({}, context.chat)
    /\ last' = [op |-> "searchEmbedding", outcome |-> outcome]
    /\ UNCHANGED indexing
    /\ UNCHANGED <<settings, now, messageBuffer, chunkTimer, timers, flushes,
                   collections, dimensions, points, offered, switches>>

SecondSearchAnswer ==
  /\ "second" \in DOMAIN search
  /\ search.second.phase = "searching"
  /\ \E ok \in BOOLEAN :
    \E found \in SUBSET Matching(points, search.second.collectionName,
                                 search.second.searchPayload) :
      /\ Cardinality(found) <= search.second.searchPayload.limit
      /\ SecondReturns(SearchResult(ok, found), context.chat)
      /\ last' = [op |-> "searchAnswer", ok |-> ok]
      /\ UNCHANGED indexing
      /\ UNCHANGED <<settings, now, messageBuffer, chunkTimer, timers, flushes,
                     collections, dimensions, points, offered, switches>>

\* the schedules where the pass that started later returns first: the
\* earlier pass does not return while the later one is waiting
LaterReturnsFirst == SecondInFlight => search'.phase # "done"

EarlierProbeAnswer == SearchProbeAnswer /\ LaterReturnsFirst

EarlierCreateAnswer == SearchCreateAnswer /\ LaterReturnsFirst

EarlierEmbeddingAnswer == SearchEmbeddingAnswer /\ LaterReturnsFirst

EarlierSearchAnswer == SearchAnswer /\ LaterReturnsFirst

NextOverlap ==
  \/ InterceptorCall
  \/ OverlapCall
  \/ EarlierProbeAnswer
  \/ EarlierCreateAnswer
  \/ EarlierEmbeddingAnswer
  \/ EarlierSearchAnswer
  \/ SecondProbeAnswer
  \/ SecondCreateAnswer
  \/ SecondEmbeddingAnswer
  \/ SecondSearchAnswer

SpecOverlap == InitPasses /\ [][NextOverlap]_vars

\* the earlier pass returns in this step, after the pass that overlapped it
BothPassesCompleted ==
  /\ "second" \in DOMAIN search
  /\ search.second.phase = "done"
  /\ PassAwaits(search)
  /\ search'.phase = "done"

\* C36: when a second interceptor pass starts while the first is awaiting
\* retrieval, the live chat holds at most one memory entry once both passes
\* have completed.
C36_Step == BothPassesCompleted => MemoryCount(context'.chat) <= 1

C36_OverlappingPassesLeaveOneEntry == [][C36_Step]_vars

\* --------------------------------- injected entries and the Buffer: claims
\* the extension runs on the polling fallback
Polling == \E t \in timers : t.id = PollId

\* a live chat that starts empty, with event hooks or with the polling
\* fallback, and a chunk stored earlier for the character
InitInject ==
  /\ settings \in {[SavedSettings EXCEPT !.memoryPosition = m] : m \in PositionChoices}
  /\ context = [name2 |-> Alice, characters |-> {Alice}, chat |-> <<>>]
  /\ now = 0
  /\ messageBuffer = <<>>
  /\ chunkTimer = 0
  /\ timers \in {{}, {PollInterval(0)}}
  /\ flushes = <<>>
  /\ points = {StoredSample(settings, Alice, 1)}
  /\ collections = {p.collection : p \in points}
  /\ dimensions = CreatedWith(collections, settings)
  /\ offered = {}
  /\ switches = 0
  /\ last = [op |-> "init"]
  /\ search = [phase |-> "idle"]
  /\ indexing = [phase |-> "idle"]

\* a message of the host, notified by an event
HookedMessage == HostMessage /\ ~Polling

\* a message of the host the poll has to find
PolledMessage == HostAppends /\ Polling

\* a pass of the interceptor, one fewer than MaxPasses in a behaviour
InjectingPass == InterceptorCall /\ PassNumber(search) < MaxPasses - 1

NextInject ==
  \/ HookedMessage
  \/ PolledMessage
  \/ PollFires
  \/ FlushTimerFires
  \/ InjectingPass
  \/ SearchProbeAnswer
  \/ SearchCreateAnswer
  \/ SearchEmbeddingAnswer
  \/ SearchAnswer

SpecInject == InitInject /\ [][NextInject]_vars

\* the texts an injected memory entry can carry
MemoryTexts == {formatMemories(m) : m \in (SUBSET points) \ {{}}}

\* the texts of the turns held by the Buffer and by the chunks flushed
HeldTexts ==
  {messageBuffer[i].text : i \in DOMAIN messageBuffer}
  \cup UNION {{flushes[f].chunk.lines[k].text : k \in DOMAIN flushes[f].chunk.lines} :
                f \in DOMAIN flushes}

\* C37: with memoryPosition >= 1 an injected memory entry is never the last
\* entry of the live chat, so onMessageSent, which takes the last entry, never
\* puts the text of a memory entry into the Buffer or into a chunk.
C37_MemoryEntryNeverLastNorBuffered ==
  /\ context.chat # <<>> =>
       ~isQdrantMemoryMessage(context.chat[Len(context.chat)])
  /\ HeldTexts \cap MemoryTexts = {}

\* onMessageSent has taken the last entry of a chat that holds a memory entry
C37_Witness ==
  /\ MemoryCount(context.chat) > 0
  /\ last.op = "poll"
  /\ last.called
  /\ messageBuffer # <<>>

\* ------------------------------------------- C38: the groups partition
\* the places of the built chunks that hold turn i of the transcript
PlacesOf(i) ==
  {pl \in BuiltPlaces : MemberAt(BuiltChunks[pl[1]], pl[2]) = i}

\* place a comes before place b in the chunks as returned
PlaceBefore(a, b) == a[1] < b[1] \/ (a[1] = b[1] /\ a[2] < b[2])

\* the total size of a chunk as createChunksFromChat counts it
TotalSize(chat, chunk) == SizeUpTo(chat, chunk, Len(chunk.messageIds))

\* C38: the chunks createChunksFromChat returns partition the surviving turns:
\* every surviving turn is in exactly one chunk and no other turn in any, the
\* order of the transcript is kept within and across chunks, no chunk is empty,
\* and every chunk of more than one turn has a total size of at most
\* chunkMaxSize.
C38_ChunksPartitionWithinMaxSize ==
  ChunksBuilt =>
    /\ \A i \in DOMAIN context.chat :
         Cardinality(PlacesOf(i)) = IF TurnKept(context.chat[i]) THEN 1 ELSE 0
    /\ \A pl \in BuiltPlaces :
         MemberAt(BuiltChunks[pl[1]], pl[2]) \in DOMAIN context.chat
    /\ \A a \in BuiltPlaces, b \in BuiltPlaces :
         PlaceBefore(a, b) =>
           MemberAt(BuiltChunks[a[1]], a[2]) < MemberAt(BuiltChunks[b[1]], b[2])
    /\ \A c \in DOMAIN BuiltChunks :
         /\ Len(BuiltChunks[c].messageIds) > 0
         /\ BuiltChunks[c].messageCount = Len(BuiltChunks[c].messageIds)
         /\ Len(BuiltChunks[c].messageIds) > 1 =>
              TotalSize(context.chat, BuiltChunks[c]) <= settings.chunkMaxSize

\* a chunk of two turns was closed because the third would have exceeded
\* chunkMaxSize
C38_Witness ==
  /\ ChunksBuilt
  /\ Len(BuiltChunks) = 2
  /\ Len(BuiltChunks[1].messageIds) = 2
  /\ TotalSize(context.chat, BuiltChunks[1])
       + TurnSize(context.chat[MemberAt(BuiltChunks[2], 1)]) > settings.chunkMaxSize

\* ------------------------------------------- C39: the Buffer drains
\* a message of the host while fewer turns have arrived than flushes are
\* followed: every flush starts in an addTurn or at the expiry of the one
\* timer an addTurn armed, so no expiry is held back by MaxFlushes
DrainHostMessage == HostMessage /\ now < MaxFlushes

NextDrain ==
  \/ DrainHostMessage
  \/ TimerFires
  \/ EmbeddingAnswer
  \/ CollectionProbeAnswer
  \/ CreateAnswer
  \/ UpsertAnswer
  \/ SwitchChat
  \/ ChangeSettings

\* every armed timer expires and every request is answered in the end
SpecDrain ==
  /\ Init
  /\ [][NextDrain]_vars
  /\ WF_vars(TimerFires)
  /\ WF_vars(EmbeddingAnswer)
  /\ WF_vars(CollectionProbeAnswer)
  /\ WF_vars(CreateAnswer)
  /\ WF_vars(UpsertAnswer)

\* after an accepted addTurn a flush has been started, or exactly one timer
\* is armed and the Buffer holds the turn its expiry will flush
C39_AddStep ==
  AcceptedAdd =>
    \/ Len(flushes') = Len(flushes) + 1
    \/ /\ Cardinality(timers') = 1
       /\ \A t \in timers' : t.id = chunkTimer'
       /\ messageBuffer' # <<>>

\* the expiry of a timer starts a flush of the turns the Buffer holds
C39_ExpiryStep ==
  (last'.op = "timer" /\ messageBuffer # <<>>) =>
    Len(flushes') = Len(flushes) + 1

InitCross ==
  /\ settings = SavedSettings
  /\ context \in {[name2 |-> n, characters |-> {Alice, n}, chat |-> <<>>] :
                    n \in RouteNames \ {Alice}}
  /\ now = 5
  /\ messageBuffer = <<>>
  /\ chunkTimer = 0
  /\ timers = {}
  /\ flushes = <<>>
  /\ points = {StoredSample(settings, Alice, 1)}
  /\ collections = {p.collection : p \in points}
  /\ dimensions = CreatedWith(collections, settings)
  /\ offered = {}
  /\ switches = 0
  /\ last = [op |-> "init"]
  /\ search = [phase |-> "idle"]
  /\ indexing = [phase |-> "idle"]

SpecCross == InitCross /\ [][NextSearch]_vars

\* C40: with per-character namespaces the namespace searched for a character
\* is the namespace of no character of another name, and the search returns
\* no chunk stored for another character.
C40_DistinctNamesDistinctNamespaces ==
  settings.usePerCharacterCollections =>
    /\ "collectionName" \in DOMAIN search =>
         \A other \in context.characters \ {search.characterName} :
           search.collectionName # getCollectionName(settings, other)
    /\ (search.phase = "done" /\ "result" \in DOMAIN search) =>
         \A p \in search.result : p.character = context.name2
====
